---- MODULE Spec2Model ----
(***************************************************************************)
(* Model of the domino-define typed tree (src/src/classes.ts): every       *)
(* entity's check / toXMLElement / fromXMLElement, the document envelope   *)
(* (File) and the consistency checker ModuleData.check.                    *)
(*                                                                         *)
(* JavaScript values are records [k, n, f, s]: k is the typeof, n and f    *)
(* the integer part and the fraction (in 1/10000) of a number, s the       *)
(* characters of a string.  Strings are sequences of one-character         *)
(* strings, so that parsing, formatting and the attribute coercion of the  *)
(* markup collaborator are computed and not assumed.                       *)
(***************************************************************************)
EXTENDS Integers, Sequences, FiniteSets, TLC

VARIABLES input, obj, xml, err, log, ops

vars == <<input, obj, xml, err, log, ops>>

\* ------------------------------------------------------------------------
\* JavaScript values
\* ------------------------------------------------------------------------

\* A number is n + f/10000 with 0 <= f < 10000 (four decimals are kept).
Undef == [k |-> "undefined", n |-> 0, f |-> 0, s |-> <<>>]
Num(i) == [k |-> "number", n |-> i, f |-> 0, s |-> <<>>]
NumF(i, fr) == [k |-> "number", n |-> i, f |-> fr, s |-> <<>>]
Str(t) == [k |-> "string", n |-> 0, f |-> 0, s |-> t]
Bool(b) == [k |-> "boolean", n |-> IF b THEN 1 ELSE 0, f |-> 0, s |-> <<>>]

IsUndef(v) == v.k = "undefined"
IsNumber(v) == v.k = "number"
IsString(v) == v.k = "string"

\* a < b and a > b on numbers
NumLt(a, b) == a.n < b.n \/ (a.n = b.n /\ a.f < b.f)
NumGt(a, b) == NumLt(b, a)
NumLe(a, b) == ~NumLt(b, a)
NumGe(a, b) == ~NumLt(a, b)

Digits == <<"0", "1", "2", "3", "4", "5", "6", "7", "8", "9">>
IsDigit(c) == \E i \in 1..10 : Digits[i] = c
DigitVal(c) == (CHOOSE i \in 1..10 : Digits[i] = c) - 1

RECURSIVE NatToStr(_)
NatToStr(i) ==
  IF i < 10 THEN <<Digits[i + 1]>>
  ELSE NatToStr(i \div 10) \o <<Digits[(i % 10) + 1]>>

RECURSIVE StrToNat(_)
StrToNat(t) ==
  IF t = <<>> THEN 0
  ELSE 10 * StrToNat(SubSeq(t, 1, Len(t) - 1)) + DigitVal(t[Len(t)])

AllDigits(t) == \A i \in 1..Len(t) : IsDigit(t[i])

\* the four fraction digits of f, without trailing zeros
RECURSIVE StripZeros(_)
StripZeros(t) ==
  IF t # <<>> /\ t[Len(t)] = "0" THEN StripZeros(SubSeq(t, 1, Len(t) - 1))
  ELSE t

Pad4(f) ==
  <<Digits[(f \div 1000) + 1], Digits[((f \div 100) % 10) + 1],
    Digits[((f \div 10) % 10) + 1], Digits[(f % 10) + 1]>>

\* '' + number : the shortest decimal text of the number
NumToStr(v) ==
  LET neg == v.n < 0
      \* magnitude of a negative n + f/10000
      ip == IF neg /\ v.f > 0 THEN -(v.n + 1) ELSE IF neg THEN -v.n ELSE v.n
      fp == IF neg /\ v.f > 0 THEN 10000 - v.f ELSE v.f
      int == NatToStr(ip)
      frac == StripZeros(Pad4(fp))
  IN (IF neg THEN <<"-">> ELSE <<>>) \o int
       \o (IF frac = <<>> THEN <<>> ELSE <<".">> \o frac)

\* String(v) and '' + v
JsString(v) ==
  CASE v.k = "string" -> v.s
    [] v.k = "number" -> NumToStr(v)
    [] v.k = "boolean" ->
         IF v.n = 1 THEN <<"t", "r", "u", "e">> ELSE <<"f", "a", "l", "s", "e">>
    [] OTHER -> <<"u", "n", "d", "e", "f", "i", "n", "e", "d">>

\* ------------------------------------------------------------------------
\* The markup collaborator (xml-js), as File uses it
\* ------------------------------------------------------------------------

\* Number(text) is not NaN: optional sign, digits with at most one point and
\* at least one digit; the empty text is the number 0.
Unsigned(t) == IF t # <<>> /\ t[1] \in {"-", "+"} THEN Tail(t) ELSE t

IsNumericText(t) ==
  LET u == Unsigned(t)
      dots == {i \in 1..Len(u) : u[i] = "."}
  IN \/ t = <<>>
     \/ /\ Cardinality(dots) <= 1
        /\ \A i \in (1..Len(u)) \ dots : IsDigit(u[i])
        /\ Len(u) > Cardinality(dots)

\* Number(text) for a numeric text
TextToNum(t) ==
  LET u == Unsigned(t)
      dots == {i \in 1..Len(u) : u[i] = "."}
      dot == IF dots = {} THEN Len(u) + 1 ELSE CHOOSE i \in dots : TRUE
      ip == StrToNat(SubSeq(u, 1, dot - 1))
      fd == SubSeq(u, dot + 1, Len(u)) \o <<"0", "0", "0", "0">>
      fp == StrToNat(SubSeq(fd, 1, 4))
      neg == t # <<>> /\ t[1] = "-"
  IN IF ~neg THEN NumF(ip, fp)
     ELSE IF fp = 0 THEN NumF(-ip, 0)
     ELSE NumF(-ip - 1, 10000 - fp)

\* xml2js with nativeTypeAttributes: the text of an attribute becomes a number
\* when Number(text) is not NaN, a boolean when it reads true or false, and
\* stays a string otherwise.
nativeType(t) ==
  IF IsNumericText(t) THEN TextToNum(t)
  ELSE IF t = <<"t", "r", "u", "e">> THEN Bool(TRUE)
  ELSE IF t = <<"f", "a", "l", "s", "e">> THEN Bool(FALSE)
  ELSE Str(t)

\* ------------------------------------------------------------------------
\* The generic element tree
\* ------------------------------------------------------------------------

Attribute(name, value) == [name |-> name, value |-> value]

ElementElement(name, attributes, elements) ==
  [type |-> "element", name |-> name, attributes |-> attributes,
   elements |-> elements, text |-> <<>>]

TextElement(text) ==
  [type |-> "text", name |-> "", attributes |-> <<>>, elements |-> <<>>,
   text |-> text]

\* const { "Name": name } = element.attributes || {}
Attr(element, name) ==
  LET hits == {i \in 1..Len(element.attributes) :
                 element.attributes[i].name = name}
  IN IF hits = {} THEN Undef
     ELSE element.attributes[CHOOSE i \in hits : \A j \in hits : i <= j].value

\* js2xml writes every attribute that is not undefined as '' + value and
\* xml2js reads it back through nativeType; an empty text node has no
\* characters to read back and leaves no child (alwaysChildren gives []).
WrittenAttributes(attributes) ==
  LET Keep(a) == a.value.k # "undefined"
      kept == SelectSeq(attributes, Keep)
  IN [i \in 1..Len(kept) |->
        Attribute(kept[i].name, nativeType(JsString(kept[i].value)))]

RECURSIVE xml2js(_)
RECURSIVE js2xml2js(_)
js2xml2js(elements) ==
  IF elements = <<>> THEN <<>>
  ELSE LET e == Head(elements)
       IN (IF e.type = "text" /\ e.text = <<>> THEN <<>> ELSE <<xml2js(e)>>)
            \o js2xml2js(Tail(elements))

xml2js(e) ==
  IF e.type = "text" THEN e
  ELSE ElementElement(e.name, WrittenAttributes(e.attributes),
                      js2xml2js(e.elements))

\* ------------------------------------------------------------------------
\* Results: a call returns a value or throws a DominoError
\* ------------------------------------------------------------------------

NoObj == [cls |-> "none"]
NoXml == [type |-> "none"]

Ok(v) == [ok |-> TRUE, val |-> v, err |-> ""]
Throw(message) == [ok |-> FALSE, val |-> NoObj, err |-> message]

\* array.map(f): the results in order, or the first error thrown
Collect(rs) ==
  LET bad == {i \in 1..Len(rs) : ~rs[i].ok}
  IN IF bad = {} THEN [ok |-> TRUE, vals |-> [i \in 1..Len(rs) |-> rs[i].val],
                       err |-> ""]
     ELSE [ok |-> FALSE, vals |-> <<>>,
           err |-> rs[CHOOSE i \in bad : \A j \in bad : i <= j].err]

NoChildren == [ok |-> TRUE, vals |-> <<>>, err |-> ""]

\* the shape of toXMLElement: this.check() first, then the children in
\* order, then the element; the first throw ends the call
\* a variant that builds the element without looking at check()
Encoded_unchecked(checked, children, name, attributes) ==
  IF ~children.ok THEN Throw(children.err)
  ELSE Ok(ElementElement(name, attributes, children.vals))

Encoded(checked, children, name, attributes) ==
  IF checked # "" THEN Throw(checked)
  ELSE IF ~children.ok THEN Throw(children.err)
  ELSE Ok(ElementElement(name, attributes, children.vals))

\* the same for an element whose only child is a text node
EncodedText(checked, name, text) ==
  IF checked # "" THEN Throw(checked)
  ELSE Ok(ElementElement(name, <<>>, <<TextElement(text)>>))

\* a subclass toXMLElement that pushes more children on the element of
\* super.toXMLElement()
Extended(checked, element, more) ==
  IF checked # "" THEN Throw(checked)
  ELSE IF ~element.ok THEN element
  ELSE IF ~more.ok THEN Throw(more.err)
  ELSE Ok([element.val EXCEPT !.elements = @ \o more.vals])

\* the element of the superclass under the name the subclass gives it
Renamed(element, name) ==
  IF ~element.ok THEN element ELSE Ok([element.val EXCEPT !.name = name])

\* an inherited static fromXMLElement: new this(...) builds the subclass
Reclassed(object, cls) ==
  IF ~object.ok THEN object ELSE Ok([object.val EXCEPT !.cls = cls])

\* the shape of fromXMLElement: the attribute tests in order (the message
\* of the first that fails, "" when none does), then the children in order,
\* then the constructor
Decoded(attributeError, children, New(_)) ==
  IF attributeError # "" THEN Throw(attributeError)
  ELSE IF ~children.ok THEN Throw(children.err)
  ELSE Ok(New(children.vals))

\* a subclass fromXMLElement on the result of fromXMLElementBase
Derived(base, children, New(_, _)) ==
  IF ~base.ok THEN base
  ELSE IF ~children.ok THEN Throw(children.err)
  ELSE Ok(New(base.val, children.vals))

\* the child elements (not text nodes) with one of the given names
ChildElements(element, names) ==
  LET Wanted(e) == e.type = "element" /\ e.name \in names
  IN SelectSeq(element.elements, Wanted)

\* the text of a Memo or Data element: its first child when that is a text
\* node, "" otherwise
FirstText(e) ==
  IF e.elements # <<>> /\ e.elements[1].type = "text" THEN e.elements[1].text
  ELSE <<>>

\* ------------------------------------------------------------------------
\* RhythmTrackDefault, ExclusiveEventDefault, ProgramChangeEventPropertyDlg,
\* ControlChangeEventDefault
\* ------------------------------------------------------------------------

RhythmTrackDefault(gate) ==
  [cls |-> "RhythmTrackDefault", param |-> [gate |-> gate]]

RhythmTrackDefault_check(t) == ""

RhythmTrackDefault_toXMLElement(t) ==
  Encoded(RhythmTrackDefault_check(t), NoChildren,
          "RhythmTrackDefault",
                         <<Attribute("Gate", t.param.gate)>>)

RhythmTrackDefault_fromXMLElement(element) ==
  LET gate == Attr(element, "Gate")
  IN Decoded(IF IsUndef(gate) \/ ~IsNumber(gate)
             THEN "Invalid XML: Not found RhythmTrackDefault Gate"
             ELSE "",
             NoChildren,
             LAMBDA vals : RhythmTrackDefault(gate))

ExclusiveEventDefault(data) ==
  [cls |-> "ExclusiveEventDefault", param |-> [data |-> data]]

ExclusiveEventDefault_check(t) == ""

ExclusiveEventDefault_toXMLElement(t) ==
  Encoded(ExclusiveEventDefault_check(t), NoChildren,
          "ExclusiveEventDefault",
                         <<Attribute("Data", t.param.data)>>)

ExclusiveEventDefault_fromXMLElement(element) ==
  LET data == Attr(element, "Data")
  IN Decoded(IF IsUndef(data) \/ ~IsString(data)
             THEN "Invalid XML: Not found ExclusiveEventDefault Data"
             ELSE "",
             NoChildren,
             LAMBDA vals : ExclusiveEventDefault(data))

ProgramChangeEventPropertyDlg(autoPreviewDelay) ==
  [cls |-> "ProgramChangeEventPropertyDlg",
   param |-> [autoPreviewDelay |-> autoPreviewDelay]]

ProgramChangeEventPropertyDlg_check(t) == ""

ProgramChangeEventPropertyDlg_toXMLElement(t) ==
  Encoded(ProgramChangeEventPropertyDlg_check(t), NoChildren,
          "ProgramChangeEventPropertyDlg",
            <<Attribute("AutoPreviewDelay", t.param.autoPreviewDelay)>>)

ProgramChangeEventPropertyDlg_fromXMLElement(element) ==
  LET autoPreviewDelay == Attr(element, "AutoPreviewDelay")
  IN Decoded(IF IsUndef(autoPreviewDelay) \/ ~IsNumber(autoPreviewDelay)
             THEN "Invalid XML: Not found ProgramChangeEventPropertyDlg AutoPreviewDelay"
             ELSE "",
             NoChildren,
             LAMBDA vals : ProgramChangeEventPropertyDlg(autoPreviewDelay))

ControlChangeEventDefault(id) ==
  [cls |-> "ControlChangeEventDefault", param |-> [id |-> id]]

ControlChangeEventDefault_check(t) == ""

ControlChangeEventDefault_toXMLElement(t) ==
  Encoded(ControlChangeEventDefault_check(t), NoChildren,
          "ControlChangeEventDefault",
                         <<Attribute("ID", t.param.id)>>)

ControlChangeEventDefault_fromXMLElement(element) ==
  LET id == Attr(element, "ID")
  IN Decoded(IF IsUndef(id) \/ ~IsNumber(id)
             THEN "Invalid XML: Not found ControlChangeEventDefault ID"
             ELSE "",
             NoChildren,
             LAMBDA vals : ControlChangeEventDefault(id))

\* ------------------------------------------------------------------------
\* Tone, Bank, DrumBank
\* ------------------------------------------------------------------------

Tone(name, key) == [cls |-> "Tone", name |-> name, key |-> key]

Tone_check(t) ==
  IF NumLt(t.key, Num(0)) \/ NumGt(t.key, Num(127))
  THEN "Key must be between 0 and 127."
  ELSE ""

Tone_toXMLElement(t) ==
  Encoded(Tone_check(t), NoChildren,
          "Tone",
            <<Attribute("Name", t.name), Attribute("Key", t.key)>>)

\* a variant that validates what it has read
Tone_fromXMLElement_checked(element) ==
  LET name == Attr(element, "Name")
      key == Attr(element, "Key")
  IN Decoded(IF IsUndef(name) THEN "Invalid XML: Not found Tone Name"
             ELSE IF ~IsNumber(key) THEN "Invalid XML: Not found Tone Key"
             ELSE Tone_check(Tone(Str(JsString(name)), key)),
             NoChildren,
             LAMBDA vals : Tone(Str(JsString(name)), key))

\* a variant that recovers from a missing key: the tone is built without
Tone_fromXMLElement_recovering(element) ==
  Decoded(IF IsUndef(Attr(element, "Name"))
          THEN "Invalid XML: Not found Tone Name" ELSE "",
          NoChildren,
          LAMBDA vals : Tone(Str(JsString(Attr(element, "Name"))),
                             Attr(element, "Key")))

Tone_fromXMLElement(element) ==
  LET name == Attr(element, "Name")
      key == Attr(element, "Key")
  IN Decoded(IF IsUndef(name) THEN "Invalid XML: Not found Tone Name"
             ELSE IF ~IsNumber(key) THEN "Invalid XML: Not found Tone Key"
             ELSE "",
             NoChildren,
             LAMBDA vals : Tone(Str(JsString(name)), key))

Bank(name, lsb, msb) ==
  [cls |-> "Bank", name |-> name, lsb |-> lsb, msb |-> msb]

DrumBank(tones, name, lsb, msb) ==
  [cls |-> "DrumBank", name |-> name, lsb |-> lsb, msb |-> msb,
   tones |-> tones]

\* a variant that looks at lsb only
Bank_check_lsbOnly(t) ==
  IF ~IsUndef(t.lsb) /\ (NumLt(t.lsb, Num(0)) \/ NumGt(t.lsb, Num(255)))
  THEN "LSB must be between 0 and 255."
  ELSE ""

Bank_check(t) ==
  IF ~IsUndef(t.lsb) /\ (NumLt(t.lsb, Num(0)) \/ NumGt(t.lsb, Num(255)))
  THEN "LSB must be between 0 and 255."
  ELSE IF ~IsUndef(t.msb) /\ (NumLt(t.msb, Num(0)) \/ NumGt(t.msb, Num(255)))
  THEN "MSB must be between 0 and 255."
  ELSE ""

Bank_toXMLElement(t) ==
  Encoded(Bank_check(t), NoChildren,
          "Bank",
            <<Attribute("Name", t.name), Attribute("LSB", t.lsb),
              Attribute("MSB", t.msb)>>)

Bank_fromXMLElementBase(element) ==
  LET name == Attr(element, "Name")
      lsb == Attr(element, "LSB")
      msb == Attr(element, "MSB")
  IN Decoded(IF IsUndef(name) THEN "Invalid XML: Not found Name"
             ELSE IF ~IsUndef(lsb) /\ ~IsNumber(lsb)
             THEN "Invalid XML: Not found Bank LSB"
             ELSE IF ~IsUndef(msb) /\ ~IsNumber(msb)
             THEN "Invalid XML: Not found Bank MSB"
             ELSE "",
             NoChildren,
             LAMBDA vals : Bank(Str(JsString(name)), lsb, msb))

Bank_fromXMLElement(element) == Bank_fromXMLElementBase(element)

\* this.check(), then super.toXMLElement(), then the tones are pushed
DrumBank_toXMLElement(t) ==
  Extended(Bank_check(t), Bank_toXMLElement(t),
           Collect([i \in 1..Len(t.tones) |-> Tone_toXMLElement(t.tones[i])]))

DrumBank_fromXMLElement(element) ==
  LET els == ChildElements(element, {"Tone"})
  IN Derived(Bank_fromXMLElementBase(element),
             Collect([i \in 1..Len(els) |-> Tone_fromXMLElement(els[i])]),
             LAMBDA base, tone : DrumBank(tone, base.name, base.lsb, base.msb))

\* ------------------------------------------------------------------------
\* PC (InstrumentPC, DrumPC), Map (InstrumentMap, DrumMap), MapList
\* ------------------------------------------------------------------------

InstrumentPC(name, pc, banks) ==
  [cls |-> "InstrumentPC", name |-> name, pc |-> pc, banks |-> banks]

DrumPC(name, pc, banks) ==
  [cls |-> "DrumPC", name |-> name, pc |-> pc, banks |-> banks]

\* a variant whose upper limit is one short
PC_check_upTo127(t) ==
  IF NumLt(t.pc, Num(1)) \/ NumGt(t.pc, Num(127))
  THEN "PC must be between 1 and 128."
  ELSE ""

PC_check(t) ==
  IF NumLt(t.pc, Num(1)) \/ NumGt(t.pc, Num(128))
  THEN "PC must be between 1 and 128."
  ELSE ""

\* bank.toXMLElement() on a Bank or a DrumBank
AnyBank_toXMLElement(bank) ==
  IF bank.cls = "DrumBank" THEN DrumBank_toXMLElement(bank)
  ELSE Bank_toXMLElement(bank)

PC_toXMLElement(t) ==
  Encoded(PC_check(t),
          Collect([i \in 1..Len(t.banks) |->
                          AnyBank_toXMLElement(t.banks[i])]),
          "PC",
               <<Attribute("Name", t.name), Attribute("PC", t.pc)>>)

\* returns {name, pc, bankElements}, here with the bank elements as banks
\* a variant that does not count the Bank children
PC_fromXMLElementBase_anyBanks(element) ==
  LET name == Attr(element, "Name")
      pc == Attr(element, "PC")
      bankElements == ChildElements(element, {"Bank"})
  IN Decoded(IF IsUndef(name) THEN "Invalid XML: Not Found PC Name"
             ELSE IF ~IsNumber(pc) THEN "Invalid XML: Not found PC"
             ELSE "",
             NoChildren,
             LAMBDA vals : [cls |-> "PCBase", name |-> Str(JsString(name)),
                            pc |-> pc, banks |-> bankElements])

PC_fromXMLElementBase(element) ==
  LET name == Attr(element, "Name")
      pc == Attr(element, "PC")
      bankElements == ChildElements(element, {"Bank"})
  IN Decoded(IF IsUndef(name) THEN "Invalid XML: Not Found PC Name"
             ELSE IF ~IsNumber(pc) THEN "Invalid XML: Not found PC"
             ELSE IF Len(bankElements) = 0 THEN "Invalid XML: Not found Bank"
             ELSE "",
             NoChildren,
             LAMBDA vals : [cls |-> "PCBase", name |-> Str(JsString(name)), pc |-> pc,
              banks |-> bankElements])

InstrumentPC_fromXMLElement(element) ==
  LET bankElements == ChildElements(element, {"Bank"})
  IN Derived(PC_fromXMLElementBase(element),
             Collect([i \in 1..Len(bankElements) |->
                        Bank_fromXMLElement(bankElements[i])]),
             LAMBDA base, banks : InstrumentPC(base.name, base.pc, banks))

DrumPC_fromXMLElement(element) ==
  LET bankElements == ChildElements(element, {"Bank"})
  IN Derived(PC_fromXMLElementBase(element),
             Collect([i \in 1..Len(bankElements) |->
                        DrumBank_fromXMLElement(bankElements[i])]),
             LAMBDA base, banks : DrumPC(base.name, base.pc, banks))

InstrumentMap(name, pcs) ==
  [cls |-> "InstrumentMap", name |-> name, pcs |-> pcs]

DrumMap(name, pcs) == [cls |-> "DrumMap", name |-> name, pcs |-> pcs]

Map_check(t) == ""

Map_toXMLElement(t) ==
  Encoded(Map_check(t),
          Collect([i \in 1..Len(t.pcs) |-> PC_toXMLElement(t.pcs[i])]),
          "Map", <<Attribute("Name", t.name)>>)

Map_fromXMLElementBase(element) ==
  LET name == Attr(element, "Name")
  IN Decoded(IF IsUndef(name) THEN "Invalid XML: Not Found Map Name"
             ELSE "",
             NoChildren,
             LAMBDA vals : [cls |-> "MapBase", name |-> Str(JsString(name)),
              pcs |-> ChildElements(element, {"PC"})])

InstrumentMap_fromXMLElement(element) ==
  LET pcElements == ChildElements(element, {"PC"})
  IN Derived(Map_fromXMLElementBase(element),
             Collect([i \in 1..Len(pcElements) |->
                        InstrumentPC_fromXMLElement(pcElements[i])]),
             LAMBDA base, pcs : InstrumentMap(base.name, pcs))

DrumMap_fromXMLElement(element) ==
  LET pcElements == ChildElements(element, {"PC"})
  IN Derived(Map_fromXMLElementBase(element),
             Collect([i \in 1..Len(pcElements) |->
                        DrumPC_fromXMLElement(pcElements[i])]),
             LAMBDA base, pcs : DrumMap(base.name, pcs))

InstrumentList(maps) == [cls |-> "InstrumentList", maps |-> maps]

DrumSetList(maps) == [cls |-> "DrumSetList", maps |-> maps]

MapList_check(t) == ""

\* MapList.toXMLElement names the element "List"; both subclasses rename it
MapList_toXMLElement(t) ==
  Encoded(MapList_check(t),
          Collect([i \in 1..Len(t.maps) |-> Map_toXMLElement(t.maps[i])]),
          "List", <<>>)

InstrumentList_toXMLElement(t) ==
  Renamed(MapList_toXMLElement(t), "InstrumentList")

DrumSetList_toXMLElement(t) == Renamed(MapList_toXMLElement(t), "DrumSetList")

InstrumentList_fromXMLElement(element) ==
  LET els == ChildElements(element, {"Map"})
  IN Decoded("",
             Collect([i \in 1..Len(els) |->
                         InstrumentMap_fromXMLElement(els[i])]),
             LAMBDA vals : InstrumentList(vals))

DrumSetList_fromXMLElement(element) ==
  LET els == ChildElements(element, {"Map"})
  IN Decoded("",
             Collect([i \in 1..Len(els) |-> DrumMap_fromXMLElement(els[i])]),
             LAMBDA vals : DrumSetList(vals))

\* ------------------------------------------------------------------------
\* Objects with optional named members (ModuleData.tags, CCM.tags): the
\* members in insertion order, which is the order of Object.values
\* ------------------------------------------------------------------------

Member(key, tag) == [key |-> key, tag |-> tag]

HasKey(tags, key) == \E i \in 1..Len(tags) : tags[i].key = key

\* tags[key] = tag : a new key goes last, a known key keeps its place
SetKey(tags, key, tag) ==
  IF HasKey(tags, key)
  THEN [i \in 1..Len(tags) |->
          IF tags[i].key = key THEN Member(key, tag) ELSE tags[i]]
  ELSE Append(tags, Member(key, tag))

RECURSIVE SetKeys(_, _)
SetKeys(tags, members) ==
  IF members = <<>> THEN tags
  ELSE SetKeys(SetKey(tags, Head(members).key, Head(members).tag),
               Tail(members))

\* tags[key], NoObj when the key is absent
GetKey(tags, key) ==
  IF HasKey(tags, key)
  THEN tags[CHOOSE i \in 1..Len(tags) : tags[i].key = key].tag
  ELSE NoObj

\* a string held where entities are held (a memo)
StringTag(text) == [cls |-> "string", text |-> text]

MemoElement(text) == ElementElement("Memo", <<>>, <<TextElement(text)>>)

\* ------------------------------------------------------------------------
\* Entry, Value, Gate, Table, Data
\* ------------------------------------------------------------------------

Entry(label, value) ==
  [cls |-> "Entry", param |-> [label |-> label, value |-> value]]

Entry_check(t) == ""

Entry_toXMLElement(t) ==
  Encoded(Entry_check(t), NoChildren,
          "Entry",
            <<Attribute("Label", t.param.label),
              Attribute("Value", t.param.value)>>)

Entry_fromXMLElement(element) ==
  LET label == Attr(element, "Label")
      value == Attr(element, "Value")
  IN Decoded(IF IsUndef(label) THEN "Invalid XML: Not found Entry Label"
             ELSE IF IsUndef(value) \/ ~IsNumber(value)
             THEN "Invalid XML: Not found Entry Value"
             ELSE "",
             NoChildren,
             LAMBDA vals : Entry(Str(JsString(label)), value))

ValueParam(default, min, max, offset, name, type, tableId) ==
  [default |-> default, min |-> min, max |-> max, offset |-> offset,
   name |-> name, type |-> type, tableId |-> tableId]

\* tags?: Entry[] ; an absent list and an empty list are both <<>>: check
\* and toXMLElement do not tell them apart
Value(param, tags) == [cls |-> "Value", param |-> param, tags |-> tags]

Gate(param, tags) == [cls |-> "Gate", param |-> param, tags |-> tags]

\* a variant that looks at max only
Value_check_maxOnly(t) ==
  LET max == t.param.max
      Outside(tag) == ~IsUndef(max) /\ NumGt(tag.param.value, max)
  IN IF \E i \in 1..Len(t.tags) : Outside(t.tags[i])
     THEN "Entry Value must be between min and max."
     ELSE ""

Value_check(t) ==
  LET min == t.param.min
      max == t.param.max
      Outside(tag) == \/ ~IsUndef(min) /\ NumLt(tag.param.value, min)
                      \/ ~IsUndef(max) /\ NumGt(tag.param.value, max)
  IN IF \E i \in 1..Len(t.tags) : Outside(t.tags[i])
     THEN "Entry Value must be between min and max."
     ELSE ""

Value_toXMLElement(t) ==
  Encoded(Value_check(t),
          Collect([i \in 1..Len(t.tags) |-> Entry_toXMLElement(t.tags[i])]),
          "Value",
               <<Attribute("Default", t.param.default),
                 Attribute("Min", t.param.min),
                 Attribute("Max", t.param.max),
                 Attribute("Offset", t.param.offset),
                 Attribute("Name", t.param.name),
                 Attribute("Type", t.param.type),
                 Attribute("TableID", t.param.tableId)>>)

Gate_toXMLElement(t) == Renamed(Value_toXMLElement(t), "Gate")

KeyStr == <<"K", "e", "y">>

\* every child element, whatever its name, is read as an Entry
Value_fromXMLElement(element) ==
  LET defaultValue == Attr(element, "Default")
      min == Attr(element, "Min")
      max == Attr(element, "Max")
      offset == Attr(element, "Offset")
      name == Attr(element, "Name")
      type == Attr(element, "Type")
      tableId == Attr(element, "TableID")
      IsElement(e) == e.type = "element"
      els == SelectSeq(element.elements, IsElement)
  IN Decoded(IF ~IsUndef(defaultValue) /\ ~IsNumber(defaultValue)
             THEN "Invalid XML: Not found Value Default"
             ELSE IF ~IsUndef(min) /\ ~IsNumber(min)
             THEN "Invalid XML: Not found Value Min"
             ELSE IF ~IsUndef(max) /\ ~IsNumber(max)
             THEN "Invalid XML: Not found Value Max"
             ELSE IF ~IsUndef(offset) /\ ~IsNumber(offset)
             THEN "Invalid XML: Not found Value Offset"
             ELSE IF ~IsUndef(type) /\ type # Str(KeyStr)
             THEN "Invalid XML: Not found Value Type"
             ELSE IF ~IsUndef(tableId) /\ ~IsNumber(tableId)
             THEN "Invalid XML: Not found Value TableID"
             ELSE "",
             Collect([i \in 1..Len(els) |-> Entry_fromXMLElement(els[i])]),
             LAMBDA vals : Value(ValueParam(defaultValue, min, max, offset,
                     IF IsUndef(name) THEN Undef ELSE Str(JsString(name)),
                     type, tableId), vals))

\* Gate inherits the static method: new this(...) builds a Gate
Gate_fromXMLElement(element) == Reclassed(Value_fromXMLElement(element), "Gate")

Table(id, tags) == [cls |-> "Table", param |-> [id |-> id], tags |-> tags]

Table_check(t) ==
  IF NumLt(t.param.id, Num(0)) THEN "Table ID must be 0 or more." ELSE ""

Table_toXMLElement(t) ==
  Encoded(Table_check(t),
          Collect([i \in 1..Len(t.tags) |-> Entry_toXMLElement(t.tags[i])]),
          "Table", <<Attribute("ID", t.param.id)>>)

Table_fromXMLElement(element) ==
  LET id == Attr(element, "ID")
      IsElement(e) == e.type = "element"
      els == SelectSeq(element.elements, IsElement)
  IN Decoded(IF IsUndef(id) \/ ~IsNumber(id)
             THEN "Invalid XML: Not found Table ID"
             ELSE "",
             Collect([i \in 1..Len(els) |-> Entry_fromXMLElement(els[i])]),
             LAMBDA vals : Table(id, vals))

Data(text) == [cls |-> "Data", text |-> text]

Data_check(t) == ""

Data_toXMLElement(t) ==
  EncodedText(Data_check(t), "Data", t.text)

Data_fromXMLElements(node) == Data(node)

\* ------------------------------------------------------------------------
\* CCM, CCMLink, CCMFolderLink, CCMFolder, ControlChangeMacroList
\* ------------------------------------------------------------------------

CCMFolderLink(name, id, value, gate) ==
  [cls |-> "CCMFolderLink",
   param |-> [name |-> name, id |-> id, value |-> value, gate |-> gate]]

CCMFolderLink_check(t) == ""

CCMFolderLink_toXMLElement(t) ==
  Encoded(CCMFolderLink_check(t), NoChildren,
          "FolderLink",
            <<Attribute("Name", t.param.name), Attribute("ID", t.param.id),
              Attribute("Value", t.param.value),
              Attribute("Gate", t.param.gate)>>)

CCMFolderLink_fromXMLElement(element) ==
  LET name == Attr(element, "Name")
      id == Attr(element, "ID")
      value == Attr(element, "Value")
      gate == Attr(element, "Gate")
  IN Decoded(IF IsUndef(name) THEN "Invalid XML: Not found FolderLink Name"
             ELSE IF IsUndef(id) \/ ~IsNumber(id)
             THEN "Invalid XML: Not found FolderLink ID"
             ELSE IF ~IsUndef(value) /\ ~IsNumber(value)
             THEN "Invalid XML: Not found FolderLink Value"
             ELSE IF ~IsUndef(gate) /\ ~IsNumber(gate)
             THEN "Invalid XML: Not found FolderLink Gate"
             ELSE "",
             NoChildren,
             LAMBDA vals : CCMFolderLink(Str(JsString(name)), id, value, gate))

CCMLink(id, value, gate) ==
  [cls |-> "CCMLink", param |-> [id |-> id, value |-> value, gate |-> gate]]

CCMLink_check(t) == ""

CCMLink_toXMLElement(t) ==
  Encoded(CCMLink_check(t), NoChildren,
          "CCMLink",
            <<Attribute("ID", t.param.id), Attribute("Value", t.param.value),
              Attribute("Gate", t.param.gate)>>)

CCMLink_fromXMLElement(element) ==
  LET id == Attr(element, "ID")
      value == Attr(element, "Value")
      gate == Attr(element, "Gate")
  IN Decoded(IF IsUndef(id) \/ ~IsNumber(id)
             THEN "Invalid XML: Not found CCMLink ID"
             ELSE IF ~IsUndef(value) /\ ~IsNumber(value)
             THEN "Invalid XML: Not found CCMLink Value"
             ELSE IF ~IsUndef(gate) /\ ~IsNumber(gate)
             THEN "Invalid XML: Not found CCMLink Gate"
             ELSE "",
             NoChildren,
             LAMBDA vals : CCMLink(id, value, gate))

\* tags: the members value, gate, data, memo that are set, in insertion order
CCM(id, name, color, sync, tags) ==
  [cls |-> "CCM",
   param |-> [id |-> id, name |-> name, color |-> color, sync |-> sync],
   tags |-> tags]

\* a variant that does not look at the colour
CCM_check_idOnly(t) ==
  IF NumLt(t.param.id, Num(0)) \/ NumGt(t.param.id, Num(1300))
  THEN "CCM ID must be between 0 and 1300."
  ELSE ""

CCM_check(t) ==
  IF NumLt(t.param.id, Num(0)) \/ NumGt(t.param.id, Num(1300))
  THEN "CCM ID must be between 0 and 1300."
  ELSE IF /\ ~IsUndef(t.param.color)
          /\ ~(t.param.color.s # <<>> /\ t.param.color.s[1] = "#")
  THEN "CCM Color must start with #."
  ELSE ""

\* one value of Object.values(this.tags)
CCMMember_toXMLElement(tag) ==
  CASE tag.cls = "string" -> Ok(MemoElement(tag.text))
    [] tag.cls = "Value" -> Value_toXMLElement(tag)
    [] tag.cls = "Gate" -> Gate_toXMLElement(tag)
    [] tag.cls = "Data" -> Data_toXMLElement(tag)

CCM_toXMLElement(t) ==
  Encoded(CCM_check(t),
          Collect([i \in 1..Len(t.tags) |->
                         CCMMember_toXMLElement(t.tags[i].tag)]),
          "CCM",
               <<Attribute("ID", t.param.id), Attribute("Name", t.param.name),
                 Attribute("Color", t.param.color),
                 Attribute("Sync", t.param.sync)>>)

LastStr == <<"L", "a", "s", "t">>
LastEachGateStr ==
  <<"L", "a", "s", "t", "E", "a", "c", "h", "G", "a", "t", "e">>

\* one recognised child of a CCM element, as the member it assigns
CCMMember_fromXMLElement(e) ==
  CASE e.name = "Value" -> Value_fromXMLElement(e)
    [] e.name = "Gate" -> Gate_fromXMLElement(e)
    [] e.name = "Data" -> Ok(Data_fromXMLElements(FirstText(e)))
    [] e.name = "Memo" -> Ok(StringTag(FirstText(e)))

CCMMemberKey(name) ==
  CASE name = "Value" -> "value"
    [] name = "Gate" -> "gate"
    [] name = "Data" -> "data"
    [] name = "Memo" -> "memo"

CCM_fromXMLElement(element) ==
  LET id == Attr(element, "ID")
      name == Attr(element, "Name")
      color == Attr(element, "Color")
      sync == Attr(element, "Sync")
      els == ChildElements(element, {"Value", "Gate", "Data", "Memo"})
  IN Decoded(IF ~IsNumber(id) THEN "Invalid XML: Not found CCM ID"
             ELSE IF IsUndef(name) THEN "Invalid XML: Not found CCM Name"
             ELSE IF ~IsUndef(color) /\ ~IsString(color)
             THEN "Invalid XML: Not found CCM Color"
             ELSE IF ~IsUndef(sync) /\ sync # Str(LastStr)
             /\ sync # Str(LastEachGateStr)
             THEN "Invalid XML: Not found CCM Sync"
             ELSE "",
             Collect([i \in 1..Len(els) |->
                            CCMMember_fromXMLElement(els[i])]),
             LAMBDA vals : CCM(id, Str(JsString(name)), color, sync,
                         SetKeys(<<>>, [i \in 1..Len(els) |->
                           Member(CCMMemberKey(els[i].name), vals[i])])))

\* tags: nested folders, links, macros, tables and memo strings
CCMFolder(name, id, tags) ==
  [cls |-> "CCMFolder", param |-> [name |-> name, id |-> id], tags |-> tags]

CCMFolder_check(t) == ""

RECURSIVE CCMFolder_toXMLElement(_)
RECURSIVE CCMFolder_fromXMLElement(_)

\* tag.toXMLElement() for a member of a macro list or of a folder
CCMTag_toXMLElement(tag) ==
  CASE tag.cls = "string" -> Ok(MemoElement(tag.text))
    [] tag.cls = "CCMFolder" -> CCMFolder_toXMLElement(tag)
    [] tag.cls = "CCMFolderLink" -> CCMFolderLink_toXMLElement(tag)
    [] tag.cls = "CCM" -> CCM_toXMLElement(tag)
    [] tag.cls = "CCMLink" -> CCMLink_toXMLElement(tag)
    [] tag.cls = "Table" -> Table_toXMLElement(tag)

\* the switch on e.name shared by the macro list and the folder
CCMTag_fromXMLElement(e) ==
  CASE e.name = "Folder" -> CCMFolder_fromXMLElement(e)
    [] e.name = "FolderLink" -> CCMFolderLink_fromXMLElement(e)
    [] e.name = "CCM" -> CCM_fromXMLElement(e)
    [] e.name = "CCMLink" -> CCMLink_fromXMLElement(e)
    [] e.name = "Table" -> Table_fromXMLElement(e)
    [] e.name = "Memo" -> Ok(StringTag(FirstText(e)))

CCMFolder_toXMLElement(t) ==
  Encoded(CCMFolder_check(t),
          Collect([i \in 1..Len(t.tags) |-> CCMTag_toXMLElement(t.tags[i])]),
          "Folder",
               <<Attribute("Name", t.param.name), Attribute("ID", t.param.id)>>)

CCMFolder_fromXMLElement(element) ==
  LET name == Attr(element, "Name")
      id == Attr(element, "ID")
      els == ChildElements(element,
               {"Folder", "FolderLink", "CCM", "CCMLink", "Table", "Memo"})
  IN Decoded(IF IsUndef(name) THEN "Invalid XML: Not found Folder Name"
             ELSE IF ~IsUndef(id) /\ ~IsNumber(id)
             THEN "Invalid XML: Not found Folder ID"
             ELSE "",
             Collect([i \in 1..Len(els) |-> CCMTag_fromXMLElement(els[i])]),
             LAMBDA vals : CCMFolder(Str(JsString(name)), id, vals))

ControlChangeMacroList(tags) ==
  [cls |-> "ControlChangeMacroList", tags |-> tags]

ControlChangeMacroList_check(t) == ""

ControlChangeMacroList_toXMLElement(t) ==
  Encoded(ControlChangeMacroList_check(t),
          Collect([i \in 1..Len(t.tags) |-> CCMTag_toXMLElement(t.tags[i])]),
          "ControlChangeMacroList", <<>>)

ControlChangeMacroList_fromXMLElement(element) ==
  LET els == ChildElements(element,
               {"Folder", "FolderLink", "CCM", "CCMLink", "Table"})
  IN Decoded("",
             Collect([i \in 1..Len(els) |-> CCMTag_fromXMLElement(els[i])]),
             LAMBDA vals : ControlChangeMacroList(vals))

\* ------------------------------------------------------------------------
\* Template subtree: CC, Memo, TemplatePC, Comment, Template,
\* TemplateFolder, TemplateList
\* ------------------------------------------------------------------------

CC(id, value, gate) ==
  [cls |-> "CC", param |-> [id |-> id, value |-> value, gate |-> gate]]

CC_check(t) == ""

CC_toXMLElement(t) ==
  Encoded(CC_check(t), NoChildren,
          "CC",
            <<Attribute("ID", t.param.id), Attribute("Value", t.param.value),
              Attribute("Gate", t.param.gate)>>)

CC_fromXMLElement(element) ==
  LET id == Attr(element, "ID")
      value == Attr(element, "Value")
      gate == Attr(element, "Gate")
  IN Decoded(IF IsUndef(id) \/ ~IsNumber(id) THEN "Invalid XML: Not found CC ID"
             ELSE IF ~IsUndef(value) /\ ~IsNumber(value)
             THEN "Invalid XML: Not found CC Value"
             ELSE IF ~IsUndef(gate) /\ ~IsNumber(gate)
             THEN "Invalid XML: Not found CC Gate"
             ELSE "",
             NoChildren,
             LAMBDA vals : CC(id, value, gate))

Memo(text) == [cls |-> "Memo", text |-> text]

Memo_check(t) == ""

Memo_toXMLElement(t) ==
  EncodedText(Memo_check(t), "Memo", t.text)

Memo_fromXMLElement(element) == Ok(Memo(FirstText(element)))

TemplatePC(pc, msb, lsb, mode) ==
  [cls |-> "TemplatePC",
   param |-> [pc |-> pc, msb |-> msb, lsb |-> lsb, mode |-> mode]]

TemplatePC_check(t) ==
  IF /\ ~IsUndef(t.param.pc)
     /\ (NumLe(t.param.pc, Num(0)) \/ NumGe(t.param.pc, Num(129)))
  THEN "PC PC must be 1 or more less than 128."
  ELSE ""

TemplatePC_toXMLElement(t) ==
  Encoded(TemplatePC_check(t), NoChildren,
          "PC",
            <<Attribute("PC", t.param.pc), Attribute("MSB", t.param.msb),
              Attribute("LSB", t.param.lsb),
              Attribute("Mode", t.param.mode)>>)

DrumsetStr == <<"D", "r", "u", "m", "s", "e", "t">>
AutoStr == <<"A", "u", "t", "o">>

TemplatePC_fromXMLElement(element) ==
  LET pc == Attr(element, "PC")
      msb == Attr(element, "MSB")
      lsb == Attr(element, "LSB")
      mode == Attr(element, "Mode")
  IN Decoded(IF ~IsUndef(pc) /\ ~IsNumber(pc) THEN "Invalid XML: Not found PC PC"
             ELSE IF ~IsUndef(msb) /\ ~IsNumber(msb)
             THEN "Invalid XML: Not found PC MSB"
             ELSE IF ~IsUndef(lsb) /\ ~IsNumber(lsb)
             THEN "Invalid XML: Not found PC LSB"
             ELSE IF ~IsUndef(mode) /\ mode # Str(DrumsetStr) /\ mode # Str(AutoStr)
             THEN "Invalid XML: PC Mode is not Drumset or Auto"
             ELSE "",
             NoChildren,
             LAMBDA vals : TemplatePC(pc, msb, lsb, mode))

Comment(text) == [cls |-> "Comment", param |-> [text |-> text]]

Comment_check(t) == ""

Comment_toXMLElement(t) ==
  Encoded(Comment_check(t), NoChildren,
          "Comment", <<Attribute("Text", t.param.text)>>)

Comment_fromXMLElement(element) ==
  LET text == Attr(element, "Text")
  IN Decoded("",
             NoChildren,
             LAMBDA vals : Comment(IF IsUndef(text) THEN Undef ELSE Str(JsString(text))))

Template(id, name, tags) ==
  [cls |-> "Template", param |-> [id |-> id, name |-> name], tags |-> tags]

Template_check(t) ==
  IF ~IsUndef(t.param.id) /\ NumLt(t.param.id, Num(0))
  THEN "Template ID must be 0 or more."
  ELSE ""

TemplateTag_toXMLElement(tag) ==
  CASE tag.cls = "Memo" -> Memo_toXMLElement(tag)
    [] tag.cls = "CC" -> CC_toXMLElement(tag)
    [] tag.cls = "TemplatePC" -> TemplatePC_toXMLElement(tag)
    [] tag.cls = "Comment" -> Comment_toXMLElement(tag)

TemplateTag_fromXMLElement(e) ==
  CASE e.name = "CC" -> CC_fromXMLElement(e)
    [] e.name = "Memo" -> Memo_fromXMLElement(e)
    [] e.name = "PC" -> TemplatePC_fromXMLElement(e)
    [] e.name = "Comment" -> Comment_fromXMLElement(e)

Template_toXMLElement(t) ==
  Encoded(Template_check(t),
          Collect([i \in 1..Len(t.tags) |->
                         TemplateTag_toXMLElement(t.tags[i])]),
          "Template",
               <<Attribute("ID", t.param.id), Attribute("Name", t.param.name)>>)

Template_fromXMLElement(element) ==
  LET name == Attr(element, "Name")
      id == Attr(element, "ID")
      els == ChildElements(element, {"CC", "Memo", "PC", "Comment"})
  IN Decoded(IF IsUndef(name) THEN "Invalid XML: Not found Template Name"
             ELSE IF ~IsUndef(id) /\ ~IsNumber(id)
             THEN "Invalid XML: Not found Template ID"
             ELSE "",
             Collect([i \in 1..Len(els) |->
                         TemplateTag_fromXMLElement(els[i])]),
             LAMBDA vals : Template(id, Str(JsString(name)), vals))

TemplateFolder(name, tags) ==
  [cls |-> "TemplateFolder", param |-> [name |-> name], tags |-> tags]

TemplateFolder_check(t) == ""

RECURSIVE TemplateFolder_toXMLElement(_)
RECURSIVE TemplateFolder_fromXMLElement(_)

TemplateListTag_toXMLElement(tag) ==
  IF tag.cls = "TemplateFolder" THEN TemplateFolder_toXMLElement(tag)
  ELSE Template_toXMLElement(tag)

TemplateListTag_fromXMLElement(e) ==
  IF e.name = "Folder" THEN TemplateFolder_fromXMLElement(e)
  ELSE Template_fromXMLElement(e)

TemplateFolder_toXMLElement(t) ==
  Encoded(TemplateFolder_check(t),
          Collect([i \in 1..Len(t.tags) |->
                         TemplateListTag_toXMLElement(t.tags[i])]),
          "Folder", <<Attribute("Name", t.param.name)>>)

TemplateFolder_fromXMLElement(element) ==
  LET name == Attr(element, "Name")
      els == ChildElements(element, {"Template", "Folder"})
  IN Decoded(IF IsUndef(name) THEN "Invalid XML: Not found Folder Name"
             ELSE "",
             Collect([i \in 1..Len(els) |->
                         TemplateListTag_fromXMLElement(els[i])]),
             LAMBDA vals : TemplateFolder(Str(JsString(name)), vals))

TemplateList(tags) == [cls |-> "TemplateList", tags |-> tags]

TemplateList_check(t) == ""

TemplateList_toXMLElement(t) ==
  Encoded(TemplateList_check(t),
          Collect([i \in 1..Len(t.tags) |->
                         TemplateListTag_toXMLElement(t.tags[i])]),
          "TemplateList", <<>>)

TemplateList_fromXMLElement(element) ==
  LET els == ChildElements(element, {"Folder", "Template"})
  IN Decoded("",
             Collect([i \in 1..Len(els) |->
                         TemplateListTag_fromXMLElement(els[i])]),
             LAMBDA vals : TemplateList(vals))

\* ------------------------------------------------------------------------
\* DefaultData: Mark, Track and the nine kinds of track event
\* ------------------------------------------------------------------------

Mark(meas, name) == [cls |-> "Mark", param |-> [meas |-> meas, name |-> name]]

Mark_check(t) ==
  IF NumLe(t.param.meas, Num(0)) THEN "Mark Meas must be 1 or more." ELSE ""

Mark_toXMLElement(t) ==
  Encoded(Mark_check(t), NoChildren,
          "Mark",
            <<Attribute("Meas", t.param.meas), Attribute("Name", t.param.name)>>)

Mark_fromXMLElement(element) ==
  LET meas == Attr(element, "Meas")
      name == Attr(element, "Name")
  IN Decoded(IF IsUndef(meas) \/ ~IsNumber(meas)
             THEN "Invalid XML: Not found Mark Meas"
             ELSE "",
             NoChildren,
             LAMBDA vals : Mark(meas, IF IsUndef(name) THEN Undef ELSE Str(JsString(name))))

DefaultDataTrackMark(name, tick, step) ==
  [cls |-> "DefaultDataTrackMark",
   param |-> [name |-> name, tick |-> tick, step |-> step]]

DefaultDataTrackMark_check(t) == ""

DefaultDataTrackMark_toXMLElement(t) ==
  Encoded(DefaultDataTrackMark_check(t), NoChildren,
          "Mark",
            <<Attribute("Name", t.param.name), Attribute("Tick", t.param.tick),
              Attribute("Step", t.param.step)>>)

DefaultDataTrackMark_fromXMLElement(element) ==
  LET name == Attr(element, "Name")
      tick == Attr(element, "Tick")
      step == Attr(element, "Step")
  IN Decoded(IF ~IsUndef(tick) /\ ~IsNumber(tick)
             THEN "Invalid XML: Not found TimeSignature Tick"
             ELSE IF ~IsUndef(step) /\ ~IsNumber(step)
             THEN "Invalid XML: Not found TimeSignature Step"
             ELSE "",
             NoChildren,
             LAMBDA vals : DefaultDataTrackMark(
               IF IsUndef(name) THEN Undef ELSE Str(JsString(name)), tick, step))

Tempo(tempo, tick, step) ==
  [cls |-> "Tempo", param |-> [tempo |-> tempo, tick |-> tick, step |-> step]]

Tempo_check(t) == ""

\* number.toFixed(3): the magnitude rounded to the nearest thousandth,
\* written with exactly three decimals
toFixed3(v) ==
  LET neg == v.n < 0
      ip == IF neg /\ v.f > 0 THEN -(v.n + 1) ELSE IF neg THEN -v.n ELSE v.n
      fp == IF neg /\ v.f > 0 THEN 10000 - v.f ELSE v.f
      q == (fp + 5) \div 10
      int == IF q = 1000 THEN ip + 1 ELSE ip
      th == IF q = 1000 THEN 0 ELSE q
  IN (IF neg THEN <<"-">> ELSE <<>>) \o NatToStr(int) \o <<".">>
       \o <<Digits[(th \div 100) + 1], Digits[((th \div 10) % 10) + 1],
            Digits[(th % 10) + 1]>>

Tempo_toXMLElement(t) ==
  Encoded(Tempo_check(t), NoChildren,
          "Tempo",
            <<Attribute("Tempo", Str(toFixed3(t.param.tempo))),
              Attribute("Tick", t.param.tick),
              Attribute("Step", t.param.step)>>)

Tempo_fromXMLElement(element) ==
  LET tempo == Attr(element, "Tempo")
      tick == Attr(element, "Tick")
      step == Attr(element, "Step")
  IN Decoded(IF IsUndef(tempo) \/ ~IsNumber(tempo)
             THEN "Invalid XML: Not found Tempo Tempo"
             ELSE IF ~IsUndef(tick) /\ ~IsNumber(tick)
             THEN "Invalid XML: Not found Tempo Tick"
             ELSE IF ~IsUndef(step) /\ ~IsNumber(step)
             THEN "Invalid XML: Not found Tempo Step"
             ELSE "",
             NoChildren,
             LAMBDA vals : Tempo(tempo, tick, step))

TimeSignature(timeSignature, tick, step) ==
  [cls |-> "TimeSignature",
   param |-> [timeSignature |-> timeSignature, tick |-> tick, step |-> step]]

\* text.split(sep)
RECURSIVE Split(_, _)
Split(t, sep) ==
  LET at == {i \in 1..Len(t) : t[i] = sep}
  IN IF at = {} THEN <<t>>
     ELSE LET i == CHOOSE a \in at : \A b \in at : a <= b
          IN <<SubSeq(t, 1, i - 1)>> \o Split(SubSeq(t, i + 1, Len(t)), sep)

\* /^\d+$/.test(s)
\* a variant for /^\d*$/
IsDigitRun_orEmpty(t) == AllDigits(t)

IsDigitRun(t) == t # <<>> /\ AllDigits(t)

TimeSignature_check(t) ==
  LET signature == Split(t.param.timeSignature.s, "/")
  IN IF \E i \in 1..Len(signature) : ~IsDigitRun(signature[i])
     THEN "TimeSignature TimeSignature does not follow format."
     ELSE ""

TimeSignature_toXMLElement(t) ==
  Encoded(TimeSignature_check(t), NoChildren,
          "TimeSignature",
            <<Attribute("TimeSignature", t.param.timeSignature),
              Attribute("Tick", t.param.tick),
              Attribute("Step", t.param.step)>>)

TimeSignature_fromXMLElement(element) ==
  LET timeSignature == Attr(element, "TimeSignature")
      tick == Attr(element, "Tick")
      step == Attr(element, "Step")
  IN Decoded(IF IsUndef(timeSignature) \/ ~IsString(timeSignature)
             THEN "Invalid XML: Not found TimeSignature TimeSignature"
             ELSE IF ~IsUndef(tick) /\ ~IsNumber(tick)
             THEN "Invalid XML: Not found TimeSignature Tick"
             ELSE IF ~IsUndef(step) /\ ~IsNumber(step)
             THEN "Invalid XML: Not found TimeSignature Step"
             ELSE "",
             NoChildren,
             LAMBDA vals : TimeSignature(timeSignature, tick, step))

KeySignature(keySignature, tick, step) ==
  [cls |-> "KeySignature",
   param |-> [keySignature |-> keySignature, tick |-> tick, step |-> step]]

KeySignature_check(t) == ""

KeySignature_toXMLElement(t) ==
  Encoded(KeySignature_check(t), NoChildren,
          "KeySignature",
            <<Attribute("KeySignature", t.param.keySignature),
              Attribute("Tick", t.param.tick),
              Attribute("Step", t.param.step)>>)

KeySignature_fromXMLElement(element) ==
  LET keySignature == Attr(element, "KeySignature")
      tick == Attr(element, "Tick")
      step == Attr(element, "Step")
  IN Decoded(IF IsUndef(keySignature) \/ ~IsString(keySignature)
             THEN "Invalid XML: Not found KeySignature KeySignature"
             ELSE IF ~IsUndef(tick) /\ ~IsNumber(tick)
             THEN "Invalid XML: Not found KeySignature Tick"
             ELSE IF ~IsUndef(step) /\ ~IsNumber(step)
             THEN "Invalid XML: Not found KeySignature Step"
             ELSE "",
             NoChildren,
             LAMBDA vals : KeySignature(keySignature, tick, step))

DefaultDataCC(id, value, gate, tick, step) ==
  [cls |-> "DefaultDataCC",
   param |-> [id |-> id, value |-> value, gate |-> gate, tick |-> tick,
              step |-> step]]

DefaultDataCC_check(t) == ""

DefaultDataCC_toXMLElement(t) ==
  Encoded(DefaultDataCC_check(t), NoChildren,
          "CC",
            <<Attribute("ID", t.param.id), Attribute("Value", t.param.value),
              Attribute("Gate", t.param.gate), Attribute("Tick", t.param.tick),
              Attribute("Step", t.param.step)>>)

DefaultDataCC_fromXMLElement(element) ==
  LET id == Attr(element, "ID")
      value == Attr(element, "Value")
      gate == Attr(element, "Gate")
      tick == Attr(element, "Tick")
      step == Attr(element, "Step")
  IN Decoded(IF IsUndef(id) \/ ~IsNumber(id)
             THEN "Invalid XML: Not found DefaultData CC Name"
             ELSE IF ~IsUndef(value) /\ ~IsNumber(value)
             THEN "Invalid XML: Not found DefaultData CC Value"
             ELSE IF ~IsUndef(gate) /\ ~IsNumber(gate)
             THEN "Invalid XML: Not found DefaultData CC Gate"
             ELSE IF ~IsUndef(tick) /\ ~IsNumber(tick)
             THEN "Invalid XML: Not found DefaultData CC Tick"
             ELSE IF ~IsUndef(step) /\ ~IsNumber(step)
             THEN "Invalid XML: Not found DefaultData CC Step"
             ELSE "",
             NoChildren,
             LAMBDA vals : DefaultDataCC(id, value, gate, tick, step))

DefaultDataPC(pc, msb, lsb, mode, tick, step) ==
  [cls |-> "DefaultDataPC",
   param |-> [pc |-> pc, msb |-> msb, lsb |-> lsb, mode |-> mode,
              tick |-> tick, step |-> step]]

DefaultDataPC_check(t) ==
  IF /\ ~IsUndef(t.param.pc)
     /\ (NumLe(t.param.pc, Num(0)) \/ NumGt(t.param.pc, Num(128)))
  THEN "DefaultData PC PC must be 1 or more and 128 or less."
  ELSE ""

DefaultDataPC_toXMLElement(t) ==
  Encoded(DefaultDataPC_check(t), NoChildren,
          "PC",
            <<Attribute("PC", t.param.pc), Attribute("MSB", t.param.msb),
              Attribute("LSB", t.param.lsb), Attribute("Mode", t.param.mode),
              Attribute("Tick", t.param.tick),
              Attribute("Step", t.param.step)>>)

DefaultDataPC_fromXMLElement(element) ==
  LET pc == Attr(element, "PC")
      msb == Attr(element, "MSB")
      lsb == Attr(element, "LSB")
      mode == Attr(element, "Mode")
      tick == Attr(element, "Tick")
      step == Attr(element, "Step")
  IN Decoded(IF ~IsUndef(pc) /\ ~IsNumber(pc)
             THEN "Invalid XML: Not found DefaultData PC PC"
             ELSE IF ~IsUndef(msb) /\ ~IsNumber(msb)
             THEN "Invalid XML: Not found DefaultData PC MSB"
             ELSE IF ~IsUndef(lsb) /\ ~IsNumber(lsb)
             THEN "Invalid XML: Not found DefaultData PC LSB"
             ELSE IF ~IsUndef(mode) /\ mode # Str(DrumsetStr) /\ mode # Str(AutoStr)
             THEN "Invalid XML: Not found DefaultData PC Mode"
             ELSE IF ~IsUndef(tick) /\ ~IsNumber(tick)
             THEN "Invalid XML: Not found DefaultData PC Tick"
             ELSE IF ~IsUndef(step) /\ ~IsNumber(step)
             THEN "Invalid XML: Not found DefaultData PC Step"
             ELSE "",
             NoChildren,
             LAMBDA vals : DefaultDataPC(pc, msb, lsb, mode, tick, step))

DefaultDataComment(text, tick, step) ==
  [cls |-> "DefaultDataComment",
   param |-> [text |-> text, tick |-> tick, step |-> step]]

DefaultDataComment_check(t) == ""

DefaultDataComment_toXMLElement(t) ==
  Encoded(DefaultDataComment_check(t), NoChildren,
          "Comment",
            <<Attribute("Text", t.param.text), Attribute("Tick", t.param.tick),
              Attribute("Step", t.param.step)>>)

DefaultDataComment_fromXMLElement(element) ==
  LET text == Attr(element, "Text")
      tick == Attr(element, "Tick")
      step == Attr(element, "Step")
  IN Decoded(IF ~IsUndef(tick) /\ ~IsNumber(tick)
             THEN "Invalid XML: Not found DefaultData Comment Tick"
             ELSE IF ~IsUndef(step) /\ ~IsNumber(step)
             THEN "Invalid XML: Not found DefaultData Comment Step"
             ELSE "",
             NoChildren,
             LAMBDA vals : DefaultDataComment(
               IF IsUndef(text) THEN Undef ELSE Str(JsString(text)), tick, step))

DefaultDataTemplate(id, tick, step) ==
  [cls |-> "DefaultDataTemplate",
   param |-> [id |-> id, tick |-> tick, step |-> step]]

DefaultDataTemplate_check(t) == ""

DefaultDataTemplate_toXMLElement(t) ==
  Encoded(DefaultDataTemplate_check(t), NoChildren,
          "Template",
            <<Attribute("ID", t.param.id), Attribute("Tick", t.param.tick),
              Attribute("Step", t.param.step)>>)

DefaultDataTemplate_fromXMLElement(element) ==
  LET id == Attr(element, "ID")
      tick == Attr(element, "Tick")
      step == Attr(element, "Step")
  IN Decoded(IF ~IsUndef(id) /\ ~IsNumber(id)
             THEN "Invalid XML: Not found DefaultData Template ID"
             ELSE IF ~IsUndef(tick) /\ ~IsNumber(tick)
             THEN "Invalid XML: Not found DefaultData Template Tick"
             ELSE IF ~IsUndef(step) /\ ~IsNumber(step)
             THEN "Invalid XML: Not found DefaultData Template Step"
             ELSE "",
             NoChildren,
             LAMBDA vals : DefaultDataTemplate(id, tick, step))

EOT(tick) == [cls |-> "EOT", param |-> [tick |-> tick]]

EOT_check(t) == ""

EOT_toXMLElement(t) ==
  Encoded(EOT_check(t), NoChildren,
          "EOT", <<Attribute("Tick", t.param.tick)>>)

EOT_fromXMLElement(element) ==
  LET tick == Attr(element, "Tick")
  IN Decoded(IF ~IsUndef(tick) /\ ~IsNumber(tick)
             THEN "Invalid XML: Not found DefaultData Template Tick"
             ELSE "",
             NoChildren,
             LAMBDA vals : EOT(tick))

Track(name, ch, mode, current, tags) ==
  [cls |-> "Track",
   param |-> [name |-> name, ch |-> ch, mode |-> mode, current |-> current],
   tags |-> tags]

Track_check(t) ==
  IF /\ ~IsUndef(t.param.ch)
     /\ (NumLe(t.param.ch, Num(0)) \/ NumGt(t.param.ch, Num(16)))
  THEN "Track Ch must be 1 or more and 16 or less."
  ELSE ""

TrackTag_toXMLElement(tag) ==
  CASE tag.cls = "DefaultDataTrackMark" -> DefaultDataTrackMark_toXMLElement(tag)
    [] tag.cls = "Tempo" -> Tempo_toXMLElement(tag)
    [] tag.cls = "TimeSignature" -> TimeSignature_toXMLElement(tag)
    [] tag.cls = "KeySignature" -> KeySignature_toXMLElement(tag)
    [] tag.cls = "DefaultDataCC" -> DefaultDataCC_toXMLElement(tag)
    [] tag.cls = "DefaultDataPC" -> DefaultDataPC_toXMLElement(tag)
    [] tag.cls = "DefaultDataComment" -> DefaultDataComment_toXMLElement(tag)
    [] tag.cls = "DefaultDataTemplate" -> DefaultDataTemplate_toXMLElement(tag)
    [] tag.cls = "EOT" -> EOT_toXMLElement(tag)

TrackTag_fromXMLElement(e) ==
  CASE e.name = "Mark" -> DefaultDataTrackMark_fromXMLElement(e)
    [] e.name = "Tempo" -> Tempo_fromXMLElement(e)
    [] e.name = "TimeSignature" -> TimeSignature_fromXMLElement(e)
    [] e.name = "KeySignature" -> KeySignature_fromXMLElement(e)
    [] e.name = "CC" -> DefaultDataCC_fromXMLElement(e)
    [] e.name = "PC" -> DefaultDataPC_fromXMLElement(e)
    [] e.name = "Comment" -> DefaultDataComment_fromXMLElement(e)
    [] e.name = "Template" -> DefaultDataTemplate_fromXMLElement(e)
    [] e.name = "EOT" -> EOT_fromXMLElement(e)

Track_toXMLElement(t) ==
  Encoded(Track_check(t),
          Collect([i \in 1..Len(t.tags) |-> TrackTag_toXMLElement(t.tags[i])]),
          "Track",
               <<Attribute("Name", t.param.name), Attribute("Ch", t.param.ch),
                 Attribute("Mode", t.param.mode),
                 Attribute("Current", t.param.current)>>)

ConductorStr == <<"C", "o", "n", "d", "u", "c", "t", "o", "r">>
RhythmStr == <<"R", "h", "y", "t", "h", "m">>

\* a decoder that collects the events from the last child to the first
Track_fromXMLElement_reversed(element) ==
  Decoded("",
          Collect([i \in 1..Len(ChildElements(element,
                     {"Mark", "Tempo", "TimeSignature", "KeySignature", "CC",
                      "PC", "Comment", "Template", "EOT"})) |->
                     TrackTag_fromXMLElement(
                       ChildElements(element,
                         {"Mark", "Tempo", "TimeSignature", "KeySignature",
                          "CC", "PC", "Comment", "Template", "EOT"})[i])]),
          LAMBDA vals : Track(Undef, Attr(element, "Ch"), Undef, Undef,
                              [i \in 1..Len(vals) |-> vals[Len(vals) + 1 - i]]))

Track_fromXMLElement(element) ==
  LET name == Attr(element, "Name")
      ch == Attr(element, "Ch")
      mode == Attr(element, "Mode")
      current == Attr(element, "Current")
      els == ChildElements(element,
               {"Mark", "Tempo", "TimeSignature", "KeySignature", "CC", "PC",
                "Comment", "Template", "EOT"})
  IN Decoded(IF ~IsUndef(ch) /\ ~IsNumber(ch)
             THEN "Invalid XML: Not found Track Ch"
             ELSE IF ~IsUndef(mode) /\ mode # Str(ConductorStr) /\ mode # Str(RhythmStr)
             THEN "Invalid XML: Not found Track Mode"
             ELSE IF ~IsUndef(current) /\ ~IsNumber(current)
             THEN "Invalid XML: Not found Track Current"
             ELSE "",
             Collect([i \in 1..Len(els) |-> TrackTag_fromXMLElement(els[i])]),
             LAMBDA vals : Track(IF IsUndef(name) THEN Undef ELSE Str(JsString(name)),
                   ch, mode, current, vals))

DefaultData(tags) == [cls |-> "DefaultData", tags |-> tags]

DefaultData_check(t) == ""

DefaultDataTag_toXMLElement(tag) ==
  IF tag.cls = "Mark" THEN Mark_toXMLElement(tag) ELSE Track_toXMLElement(tag)

DefaultDataTag_fromXMLElement(e) ==
  IF e.name = "Mark" THEN Mark_fromXMLElement(e) ELSE Track_fromXMLElement(e)

DefaultData_toXMLElement(t) ==
  Encoded(DefaultData_check(t),
          Collect([i \in 1..Len(t.tags) |->
                         DefaultDataTag_toXMLElement(t.tags[i])]),
          "DefaultData", <<>>)

DefaultData_fromXMLElement(element) ==
  LET els == ChildElements(element, {"Mark", "Track"})
  IN Decoded("",
             Collect([i \in 1..Len(els) |->
                         DefaultDataTag_fromXMLElement(els[i])]),
             LAMBDA vals : DefaultData(vals))

\* ------------------------------------------------------------------------
\* interface Base: tag.check() and tag.toXMLElement() on any entity, and the
\* static fromXMLElement of a named class
\* ------------------------------------------------------------------------

\* the classes whose check() has a rule; every other check() is empty
Base_check(tag) ==
  CASE
       tag.cls = "Tone" -> Tone_check(tag)
    [] tag.cls = "Bank" -> Bank_check(tag)
    [] tag.cls = "DrumBank" -> Bank_check(tag)
    [] tag.cls = "InstrumentPC" -> PC_check(tag)
    [] tag.cls = "DrumPC" -> PC_check(tag)
    [] tag.cls = "CCM" -> CCM_check(tag)
    [] tag.cls = "Value" -> Value_check(tag)
    [] tag.cls = "Gate" -> Value_check(tag)
    [] tag.cls = "Table" -> Table_check(tag)
    [] tag.cls = "TemplatePC" -> TemplatePC_check(tag)
    [] tag.cls = "Template" -> Template_check(tag)
    [] tag.cls = "Mark" -> Mark_check(tag)
    [] tag.cls = "Track" -> Track_check(tag)
    [] tag.cls = "TimeSignature" -> TimeSignature_check(tag)
    [] tag.cls = "DefaultDataPC" -> DefaultDataPC_check(tag)
    [] OTHER -> ""

Base_toXMLElement(tag) ==
  CASE
       tag.cls = "RhythmTrackDefault" -> RhythmTrackDefault_toXMLElement(tag)
    [] tag.cls = "ExclusiveEventDefault" -> ExclusiveEventDefault_toXMLElement(tag)
    [] tag.cls = "ProgramChangeEventPropertyDlg" -> ProgramChangeEventPropertyDlg_toXMLElement(tag)
    [] tag.cls = "ControlChangeEventDefault" -> ControlChangeEventDefault_toXMLElement(tag)
    [] tag.cls = "InstrumentList" -> InstrumentList_toXMLElement(tag)
    [] tag.cls = "DrumSetList" -> DrumSetList_toXMLElement(tag)
    [] tag.cls = "ControlChangeMacroList" -> ControlChangeMacroList_toXMLElement(tag)
    [] tag.cls = "TemplateList" -> TemplateList_toXMLElement(tag)
    [] tag.cls = "DefaultData" -> DefaultData_toXMLElement(tag)
    [] tag.cls = "InstrumentMap" -> Map_toXMLElement(tag)
    [] tag.cls = "DrumMap" -> Map_toXMLElement(tag)
    [] tag.cls = "InstrumentPC" -> PC_toXMLElement(tag)
    [] tag.cls = "DrumPC" -> PC_toXMLElement(tag)
    [] tag.cls = "Bank" -> Bank_toXMLElement(tag)
    [] tag.cls = "DrumBank" -> DrumBank_toXMLElement(tag)
    [] tag.cls = "Tone" -> Tone_toXMLElement(tag)
    [] tag.cls = "CCMFolder" -> CCMFolder_toXMLElement(tag)
    [] tag.cls = "CCMFolderLink" -> CCMFolderLink_toXMLElement(tag)
    [] tag.cls = "CCM" -> CCM_toXMLElement(tag)
    [] tag.cls = "CCMLink" -> CCMLink_toXMLElement(tag)
    [] tag.cls = "Value" -> Value_toXMLElement(tag)
    [] tag.cls = "Gate" -> Gate_toXMLElement(tag)
    [] tag.cls = "Entry" -> Entry_toXMLElement(tag)
    [] tag.cls = "Table" -> Table_toXMLElement(tag)
    [] tag.cls = "Data" -> Data_toXMLElement(tag)
    [] tag.cls = "TemplateFolder" -> TemplateFolder_toXMLElement(tag)
    [] tag.cls = "Template" -> Template_toXMLElement(tag)
    [] tag.cls = "CC" -> CC_toXMLElement(tag)
    [] tag.cls = "Memo" -> Memo_toXMLElement(tag)
    [] tag.cls = "TemplatePC" -> TemplatePC_toXMLElement(tag)
    [] tag.cls = "Comment" -> Comment_toXMLElement(tag)
    [] tag.cls = "Mark" -> Mark_toXMLElement(tag)
    [] tag.cls = "Track" -> Track_toXMLElement(tag)
    [] tag.cls = "DefaultDataTrackMark" -> DefaultDataTrackMark_toXMLElement(tag)
    [] tag.cls = "Tempo" -> Tempo_toXMLElement(tag)
    [] tag.cls = "TimeSignature" -> TimeSignature_toXMLElement(tag)
    [] tag.cls = "KeySignature" -> KeySignature_toXMLElement(tag)
    [] tag.cls = "DefaultDataCC" -> DefaultDataCC_toXMLElement(tag)
    [] tag.cls = "DefaultDataPC" -> DefaultDataPC_toXMLElement(tag)
    [] tag.cls = "DefaultDataComment" -> DefaultDataComment_toXMLElement(tag)
    [] tag.cls = "DefaultDataTemplate" -> DefaultDataTemplate_toXMLElement(tag)
    [] tag.cls = "EOT" -> EOT_toXMLElement(tag)

Base_fromXMLElement(cls, element) ==
  CASE
       cls = "RhythmTrackDefault" -> RhythmTrackDefault_fromXMLElement(element)
    [] cls = "ExclusiveEventDefault" -> ExclusiveEventDefault_fromXMLElement(element)
    [] cls = "ProgramChangeEventPropertyDlg" -> ProgramChangeEventPropertyDlg_fromXMLElement(element)
    [] cls = "ControlChangeEventDefault" -> ControlChangeEventDefault_fromXMLElement(element)
    [] cls = "InstrumentList" -> InstrumentList_fromXMLElement(element)
    [] cls = "DrumSetList" -> DrumSetList_fromXMLElement(element)
    [] cls = "ControlChangeMacroList" -> ControlChangeMacroList_fromXMLElement(element)
    [] cls = "TemplateList" -> TemplateList_fromXMLElement(element)
    [] cls = "DefaultData" -> DefaultData_fromXMLElement(element)
    [] cls = "InstrumentMap" -> InstrumentMap_fromXMLElement(element)
    [] cls = "DrumMap" -> DrumMap_fromXMLElement(element)
    [] cls = "InstrumentPC" -> InstrumentPC_fromXMLElement(element)
    [] cls = "DrumPC" -> DrumPC_fromXMLElement(element)
    [] cls = "Bank" -> Bank_fromXMLElement(element)
    [] cls = "DrumBank" -> DrumBank_fromXMLElement(element)
    [] cls = "Tone" -> Tone_fromXMLElement(element)
    [] cls = "CCMFolder" -> CCMFolder_fromXMLElement(element)
    [] cls = "CCMFolderLink" -> CCMFolderLink_fromXMLElement(element)
    [] cls = "CCM" -> CCM_fromXMLElement(element)
    [] cls = "CCMLink" -> CCMLink_fromXMLElement(element)
    [] cls = "Value" -> Value_fromXMLElement(element)
    [] cls = "Gate" -> Gate_fromXMLElement(element)
    [] cls = "Entry" -> Entry_fromXMLElement(element)
    [] cls = "Table" -> Table_fromXMLElement(element)
    [] cls = "TemplateFolder" -> TemplateFolder_fromXMLElement(element)
    [] cls = "Template" -> Template_fromXMLElement(element)
    [] cls = "CC" -> CC_fromXMLElement(element)
    [] cls = "Memo" -> Memo_fromXMLElement(element)
    [] cls = "TemplatePC" -> TemplatePC_fromXMLElement(element)
    [] cls = "Comment" -> Comment_fromXMLElement(element)
    [] cls = "Mark" -> Mark_fromXMLElement(element)
    [] cls = "Track" -> Track_fromXMLElement(element)
    [] cls = "DefaultDataTrackMark" -> DefaultDataTrackMark_fromXMLElement(element)
    [] cls = "Tempo" -> Tempo_fromXMLElement(element)
    [] cls = "TimeSignature" -> TimeSignature_fromXMLElement(element)
    [] cls = "KeySignature" -> KeySignature_fromXMLElement(element)
    [] cls = "DefaultDataCC" -> DefaultDataCC_fromXMLElement(element)
    [] cls = "DefaultDataPC" -> DefaultDataPC_fromXMLElement(element)
    [] cls = "DefaultDataComment" -> DefaultDataComment_fromXMLElement(element)
    [] cls = "DefaultDataTemplate" -> DefaultDataTemplate_fromXMLElement(element)
    [] cls = "EOT" -> EOT_fromXMLElement(element)

\* ------------------------------------------------------------------------
\* ModuleData and its consistency check
\* ------------------------------------------------------------------------

\* tags: the sub-trees that are set, in insertion order
ModuleData(name, folder, priority, fileCreator, fileVersion, website, tags) ==
  [cls |-> "ModuleData", name |-> name, folder |-> folder,
   priority |-> priority, fileCreator |-> fileCreator,
   fileVersion |-> fileVersion, website |-> website, tags |-> tags]

RECURSIVE flatFn(_)
RECURSIVE flatMapFlatFn(_)
flatMapFlatFn(tags) ==
  IF tags = <<>> THEN <<>>
  ELSE flatFn(Head(tags)) \o flatMapFlatFn(Tail(tags))

\* a variant that does not descend into folders
flatFn_shallow(tag) == <<tag>>

flatFn(tag) ==
  IF tag.cls = "CCMFolder" THEN <<tag>> \o flatMapFlatFn(tag.tags)
  ELSE <<tag>>

\* sortFn(a, b) < 0 : (a.id ?? Infinity) - (b.id ?? Infinity) is negative.
\* Infinity - Infinity is NaN, which sort reads as 0.
\* a variant that reads a missing id as 0
sortFn_missingAsZero(a, b) ==
  NumLt(IF IsUndef(a.param.id) THEN Num(0) ELSE a.param.id,
        IF IsUndef(b.param.id) THEN Num(0) ELSE b.param.id)

sortFn(a, b) ==
  /\ ~IsUndef(a.param.id)
  /\ (IsUndef(b.param.id) \/ NumLt(a.param.id, b.param.id))

\* list.sort(sortFn): Array.prototype.sort is stable
RECURSIVE Insert(_, _)
Insert(sorted, tag) ==
  IF sorted = <<>> THEN <<tag>>
  ELSE IF sortFn(tag, sorted[Len(sorted)])
  THEN Append(Insert(SubSeq(sorted, 1, Len(sorted) - 1), tag),
              sorted[Len(sorted)])
  ELSE Append(sorted, tag)

RECURSIVE Sort(_)
Sort(list) ==
  IF list = <<>> THEN <<>>
  ELSE Insert(Sort(SubSeq(list, 1, Len(list) - 1)), list[Len(list)])

TypeName(tag) ==
  IF tag.cls = "CCMFolder" THEN "Folder"
  ELSE IF tag.cls = "CCM" THEN "CCM"
  ELSE "Table"

\* log.error(`Duplicate ${type} tag ID: ${id}`)
ErrorLine(type, id) ==
  [level |-> "error", type |-> type, id |-> id, text |-> <<>>]

\* log.info(`Used Ids (${type}): ${str}`)
InfoLine(type, str) ==
  [level |-> "info", type |-> type, id |-> Undef, text |-> str]

\* the forEach of checkDuplicate from position i on, prevId carried along
RECURSIVE checkDuplicateFrom(_, _, _)
checkDuplicateFrom(list, i, prevId) ==
  IF i > Len(list) THEN <<>>
  ELSE LET tag == list[i]
       IN IF IsUndef(tag.param.id) THEN checkDuplicateFrom(list, i + 1, prevId)
          ELSE (IF tag.param.id = prevId
                THEN <<ErrorLine(TypeName(tag), tag.param.id)>>
                ELSE <<>>)
                 \o checkDuplicateFrom(list, i + 1, tag.param.id)

checkDuplicate(list) == checkDuplicateFrom(list, 1, Num(-1))

\* a variant of the inner loop that breaks without the decrement
RECURSIVE usedIdInner_noDecrement(_, _, _)
usedIdInner_noDecrement(list, i, end) ==
  IF ~(i < Len(list)) THEN [i |-> i, end |-> end]
  ELSE LET prev == list[i].param.id
           next == list[i + 1].param.id
       IN IF IsUndef(next) \/ NumGe(next, [prev EXCEPT !.n = @ + 2])
          THEN [i |-> i, end |-> end]
          ELSE usedIdInner_noDecrement(list, i + 1, next)

\* the inner for loop of outputUsedId, entered with i already incremented:
\* [i, end] when it is left (i is 0-based, as in the source)
RECURSIVE usedIdInner(_, _, _)
usedIdInner(list, i, end) ==
  IF ~(i < Len(list)) THEN [i |-> i, end |-> end]
  ELSE LET prev == list[i].param.id
           next == list[i + 1].param.id
       IN IF IsUndef(next) \/ NumGe(next, [prev EXCEPT !.n = @ + 2])
          THEN [i |-> i - 1, end |-> end]
          ELSE usedIdInner(list, i + 1, next)

\* the outer for loop of outputUsedId from index i on (0-based), str so far
RECURSIVE usedIdOuter(_, _, _)
usedIdOuter(list, i, str) ==
  IF ~(i < Len(list)) THEN str
  ELSE LET start == list[i + 1].param.id
       IN IF IsUndef(start) THEN str
          ELSE LET r == usedIdInner(list, i + 1, Undef)
                   piece ==
                     IF IsUndef(r.end) \/ start = r.end
                     THEN NumToStr(start) \o <<" ">>
                     ELSE NumToStr(start) \o <<"-">> \o NumToStr(r.end)
                            \o <<" ">>
               IN usedIdOuter(list, r.i + 1, str \o piece)

\* a variant without the two early returns: a line for every list
outputUsedId_always(list) ==
  IF Len(list) = 0 THEN <<InfoLine("Table", <<>>)>>
  ELSE <<InfoLine(TypeName(list[1]), usedIdOuter(list, 0, <<>>))>>

outputUsedId(list) ==
  IF Len(list) = 0 THEN <<>>
  ELSE IF IsUndef(list[1].param.id) THEN <<>>
  ELSE <<InfoLine(TypeName(list[1]), usedIdOuter(list, 0, <<>>))>>

OfClass(list, cls) ==
  LET Is(tag) == tag.cls = cls
  IN SelectSeq(list, Is)

\* a variant that reports kind by kind: the errors of a kind, then its
\* used ids
ModuleData_check_kindByKind(t) ==
  LET ccmFlatList ==
        IF HasKey(t.tags, "controlChangeMacroList")
        THEN flatMapFlatFn(GetKey(t.tags, "controlChangeMacroList").tags)
        ELSE <<>>
      ccm == Sort(OfClass(ccmFlatList, "CCM"))
      ccmFolder == Sort(OfClass(ccmFlatList, "CCMFolder"))
      table == Sort(OfClass(ccmFlatList, "Table"))
  IN checkDuplicate(ccm) \o outputUsedId(ccm)
       \o checkDuplicate(ccmFolder) \o outputUsedId(ccmFolder)
       \o checkDuplicate(table) \o outputUsedId(table)

\* ModuleData.check(): the lines it logs, in order
ModuleData_check(t) ==
  LET ccmFlatList ==
        IF HasKey(t.tags, "controlChangeMacroList")
        THEN flatMapFlatFn(GetKey(t.tags, "controlChangeMacroList").tags)
        ELSE <<>>
      ccm == Sort(OfClass(ccmFlatList, "CCM"))
      ccmFolder == Sort(OfClass(ccmFlatList, "CCMFolder"))
      table == Sort(OfClass(ccmFlatList, "Table"))
  IN checkDuplicate(ccm) \o checkDuplicate(ccmFolder) \o checkDuplicate(table)
       \o outputUsedId(ccm) \o outputUsedId(ccmFolder) \o outputUsedId(table)

\* a variant whose list of CCMs is the array of the tree: the sort moves the
\* CCMs of the macro list to its front, in the order of their ids
ModuleData_checkArrays_inPlace(t) ==
  LET tags == IF HasKey(t.tags, "controlChangeMacroList")
              THEN GetKey(t.tags, "controlChangeMacroList").tags
              ELSE <<>>
      NotCCM(tag) == tag.cls # "CCM"
  IN [tags |-> Sort(OfClass(tags, "CCM")) \o SelectSeq(tags, NotCCM),
      ccm |-> Sort(OfClass(tags, "CCM")),
      ccmFolder |-> Sort(OfClass(flatMapFlatFn(tags), "CCMFolder")),
      table |-> Sort(OfClass(flatMapFlatFn(tags), "Table"))]

\* the arrays that ModuleData.check() has read or written, when it returns:
\* tags is the array of the macro list of the tree, which flatMap reads;
\* ccm, ccmFolder and table are arrays of check() itself, filled by push
\* and sorted in place
ModuleData_checkArrays(t) ==
  LET tags == IF HasKey(t.tags, "controlChangeMacroList")
              THEN GetKey(t.tags, "controlChangeMacroList").tags
              ELSE <<>>
  IN [tags |-> tags,
      ccm |-> Sort(OfClass(flatMapFlatFn(tags), "CCM")),
      ccmFolder |-> Sort(OfClass(flatMapFlatFn(tags), "CCMFolder")),
      table |-> Sort(OfClass(flatMapFlatFn(tags), "Table"))]

\* the tree when check() has returned
ModuleData_checked(t) ==
  IF HasKey(t.tags, "controlChangeMacroList")
  THEN [t EXCEPT !.tags =
          SetKey(t.tags, "controlChangeMacroList",
                 [GetKey(t.tags, "controlChangeMacroList")
                    EXCEPT !.tags = ModuleData_checkArrays(t).tags])]
  ELSE t

\* an encoder that gives up when check() has logged an error
ModuleData_toXMLElement_blocking(t) ==
  Encoded(IF \E i \in 1..Len(ModuleData_check(t)) :
               ModuleData_check(t)[i].level = "error"
          THEN "Duplicate tag ID" ELSE "",
          Collect([i \in 1..Len(t.tags) |-> Base_toXMLElement(t.tags[i].tag)]),
          "ModuleData", <<Attribute("Name", t.name)>>)

ModuleData_toXMLElement(t) ==
  Encoded("", Collect([i \in 1..Len(t.tags) |->
                         Base_toXMLElement(t.tags[i].tag)]),
          "ModuleData",
          <<Attribute("Name", t.name), Attribute("Folder", t.folder),
            Attribute("Priority", t.priority),
            Attribute("FileCreator", t.fileCreator),
            Attribute("FileVersion", t.fileVersion),
            Attribute("WebSite", t.website)>>)

\* the key of ModuleData.tags that a child element name assigns
ModuleDataKey(name) ==
  CASE name = "RhythmTrackDefault" -> "rhythmTrackDefault"
    [] name = "ExclusiveEventDefault" -> "exclusiveEventDefault"
    [] name = "ProgramChangeEventPropertyDlg" -> "programChangeEventPropertyDlg"
    [] name = "ControlChangeEventDefault" -> "controlChangeEventDefault"
    [] name = "InstrumentList" -> "instrumentList"
    [] name = "DrumSetList" -> "drumSetList"
    [] name = "ControlChangeMacroList" -> "controlChangeMacroList"
    [] name = "TemplateList" -> "templateList"
    [] name = "DefaultData" -> "defaultData"

ModuleDataNames ==
  {"RhythmTrackDefault", "ExclusiveEventDefault",
   "ProgramChangeEventPropertyDlg", "ControlChangeEventDefault",
   "InstrumentList", "DrumSetList", "ControlChangeMacroList", "TemplateList",
   "DefaultData"}

OptString(v) == IF IsUndef(v) THEN Undef ELSE Str(JsString(v))

\* a decoder that takes a child it does not know for an error
ModuleData_fromXMLElement_strict(element) ==
  Decoded(IF IsUndef(Attr(element, "Name"))
          THEN "Invalid XML: Not found ModuleData Name"
          ELSE IF \E i \in 1..Len(element.elements) :
                    /\ element.elements[i].type = "element"
                    /\ element.elements[i].name \notin ModuleDataNames
          THEN "Invalid XML: Unknown child"
          ELSE "",
          Collect([i \in 1..Len(ChildElements(element, ModuleDataNames)) |->
                     Base_fromXMLElement(
                       ChildElements(element, ModuleDataNames)[i].name,
                       ChildElements(element, ModuleDataNames)[i])]),
          LAMBDA vals :
            ModuleData(Str(JsString(Attr(element, "Name"))), Undef, Undef,
                       Undef, Undef, Undef,
                       SetKeys(<<>>,
                         [i \in 1..Len(vals) |->
                            Member(ModuleDataKey(
                                     ChildElements(element, ModuleDataNames)[i].name),
                                   vals[i])])))

ModuleData_fromXMLElement(element) ==
  LET name == Attr(element, "Name")
      folder == Attr(element, "Folder")
      priority == Attr(element, "Priority")
      fileCreator == Attr(element, "FileCreator")
      fileVersion == Attr(element, "FileVersion")
      website == Attr(element, "WebSite")
      els == ChildElements(element, ModuleDataNames)
  IN Decoded(IF IsUndef(name) THEN "Invalid XML: Not found ModuleData Name"
             ELSE IF ~IsUndef(priority) /\ ~IsNumber(priority)
             THEN "Invalid XML: Not found ModuleData Priority"
             ELSE "",
             Collect([i \in 1..Len(els) |->
                         Base_fromXMLElement(els[i].name, els[i])]),
             LAMBDA vals : ModuleData(Str(JsString(name)), OptString(folder), priority,
                        OptString(fileCreator), OptString(fileVersion),
                        OptString(website),
                        SetKeys(<<>>, [i \in 1..Len(els) |->
                          Member(ModuleDataKey(els[i].name), vals[i])])))

\* ------------------------------------------------------------------------
\* File: the document envelope
\* ------------------------------------------------------------------------

File(moduleData) == [cls |-> "File", moduleData |-> moduleData]

xmlVersion == <<"1", ".", "0">>
xmlEncoding == <<"S", "h", "i", "f", "t", "_", "J", "I", "S">>

\* the object handed to js2xml, and the object xml2js returns; the text in
\* between is this object with every attribute written as text
XmlJs(hasDeclaration, attributes, elements) ==
  [type |-> "xmljs", hasDeclaration |-> hasDeclaration,
   attributes |-> attributes, elements |-> elements]

\* the document js2xml is given for a ModuleData element
Document(element) ==
  IF ~element.ok THEN element
  ELSE Ok(XmlJs(TRUE, <<Attribute("version", Str(xmlVersion)),
                        Attribute("encoding", Str(xmlEncoding))>>,
                <<element.val>>))

File_toXML(t) == Document(ModuleData_toXMLElement(t.moduleData))

\* new File({ moduleData })
Filed(moduleData) ==
  IF ~moduleData.ok THEN moduleData ELSE Ok(File(moduleData.val))

\* a decoder that decodes the first element before it looks at the
\* declaration
File_fromDocument_rootFirst(doc) ==
  IF doc.elements # <<>> /\ ~ModuleData_fromXMLElement(doc.elements[1]).ok
  THEN ModuleData_fromXMLElement(doc.elements[1])
  ELSE IF ~doc.hasDeclaration THEN Throw("Invalid XML")
  ELSE IF Attr(doc, "encoding") # Str(xmlEncoding)
  THEN Throw("Invalid encoding")
  ELSE IF doc.elements = <<>> THEN Throw("Invalid XML: Not found ModuleData")
  ELSE Filed(ModuleData_fromXMLElement(doc.elements[1]))

\* File.fromXML from the object xml2js returned
File_fromDocument(doc) ==
  IF ~doc.hasDeclaration THEN Throw("Invalid XML")
  ELSE IF doc.attributes = <<>> THEN Throw("TypeError")
  ELSE IF Attr(doc, "encoding") # Str(xmlEncoding)
  THEN Throw("Invalid encoding")
  ELSE IF doc.elements = <<>> \/ doc.elements[1].type # "element"
  THEN Throw("Invalid XML: Not found ModuleData")
  ELSE Filed(ModuleData_fromXMLElement(doc.elements[1]))

File_fromXML(text) ==
  File_fromDocument(XmlJs(text.hasDeclaration,
                          WrittenAttributes(text.attributes),
                          js2xml2js(text.elements)))

\* ------------------------------------------------------------------------
\* Inputs: the entities a caller constructs and the elements a parser hands
\* to fromXMLElement
\* ------------------------------------------------------------------------

MaxOps == 3
MaxTones == 2
MaxBanks == 2
MaxChildren == 2

SeqsUpTo(S, n) == UNION {[1..k -> S] : k \in 0..n}

\* an optional number drawn from S
OptNums(S) == {Undef} \cup {Num(i) : i \in S}

NameA == Str(<<"a">>)

\* an entity, with the class whose fromXMLElement reads it back
EntityInput(t) == [cls |-> t.cls, obj |-> t, xml |-> NoXml]

\* an element, with the class whose fromXMLElement is to read it
ElementInput(cls, e) == [cls |-> cls, obj |-> NoObj, xml |-> e]

KeyNums == {-1, 0, 127, 128}
ByteNums == {-1, 0, 255, 256}
ProgramNums == {0, 1, 128, 129}

ToneInputs == {Tone(NameA, Num(k)) : k \in KeyNums}

BankInputs == {Bank(NameA, l, m) : l \in OptNums(ByteNums), m \in OptNums(ByteNums)}

DrumBankInputs ==
  {DrumBank(tones, NameA, lm[1], lm[2]) :
     tones \in SeqsUpTo(ToneInputs, MaxTones),
     lm \in {<<Undef, Undef>>, <<Num(0), Num(255)>>, <<Num(256), Undef>>,
             <<Undef, Num(-1)>>}}

GoodBank == Bank(NameA, Num(0), Num(255))
BadBank == Bank(NameA, Num(256), Undef)
GoodDrumBank == DrumBank(<<Tone(NameA, Num(0)), Tone(NameA, Num(127))>>, NameA,
                         Undef, Undef)
BadDrumBank == DrumBank(<<Tone(NameA, Num(0)), Tone(NameA, Num(128))>>, NameA,
                        Undef, Undef)

PCInputs ==
  {InstrumentPC(NameA, Num(pc), banks) :
     pc \in ProgramNums, banks \in SeqsUpTo({GoodBank, BadBank}, MaxBanks)}
  \cup
  {DrumPC(NameA, Num(pc), banks) :
     pc \in ProgramNums,
     banks \in SeqsUpTo({GoodDrumBank, BadDrumBank}, MaxBanks)}

\* PC elements as a parser gives them: attributes present or not, of the
\* right type or not; Bank children, a Bank without Name, an unknown child
BankElement ==
  ElementElement("Bank", <<Attribute("Name", NameA), Attribute("LSB", Num(0))>>,
                 <<ElementElement("Tone",
                     <<Attribute("Name", NameA), Attribute("Key", Num(128))>>,
                     <<>>)>>)
NamelessBankElement == ElementElement("Bank", <<>>, <<>>)
UnknownElement == ElementElement("Unknown", <<>>, <<>>)

PCElements ==
  {ElementElement("PC", <<Attribute("Name", name), Attribute("PC", pc)>>, els) :
     name \in {Undef, NameA},
     pc \in {Undef, Num(0), Num(5), Str(<<"x">>)},
     els \in SeqsUpTo({BankElement, NamelessBankElement, UnknownElement},
                      MaxChildren)}

\* CCMs around the ends of the id range, with and without a colour
CCMIds == {-1, 0, 1300, 1301}
Colors ==
  {Undef, Str(<<"#", "F", "F", "0", "0", "0", "0">>),
   Str(<<"F", "F", "0", "0", "0", "0">>), Str(<<>>)}

CCMInputs == {CCM(Num(i), NameA, c, Undef, <<>>) : i \in CCMIds, c \in Colors}

\* Values and Gates: each bound present or absent, entries around the bounds
MaxEntries == 2
EntryNums == {-1, 0, 10, 11}
Windows ==
  {<<Undef, Undef>>, <<Num(0), Undef>>, <<Undef, Num(10)>>,
   <<Num(0), Num(10)>>, <<Num(10), Num(0)>>}

Window(w) == ValueParam(Undef, w[1], w[2], Undef, Undef, Undef, Undef)

EntryInputs == {Entry(NameA, Num(v)) : v \in EntryNums}

ValueInputs ==
  {Value(Window(w), tags) : w \in Windows,
                            tags \in SeqsUpTo(EntryInputs, MaxEntries)}
  \cup
  {Gate(Window(w), tags) : w \in Windows,
                           tags \in SeqsUpTo(EntryInputs, MaxEntries)}

\* time signatures: every text over a digit, the separator and a letter,
\* and the texts 12 and 4/4x
MaxSigLen == 3
SigChars == {"4", "/", "x"}
SigTexts ==
  SeqsUpTo(SigChars, MaxSigLen) \cup {<<"1", "2">>, <<"4", "/", "4", "x">>}

TimeSignatureInputs == {TimeSignature(Str(t), Undef, Undef) : t \in SigTexts}

\* elements whose attributes have the right types and whose values are
\* outside what check() allows
Tone128Element ==
  ElementElement("Tone", <<Attribute("Name", NameA), Attribute("Key", Num(128))>>,
                 <<>>)

ValueElement(name, v) ==
  ElementElement(name, <<Attribute("Min", Num(0)), Attribute("Max", Num(10))>>,
                 <<ElementElement("Entry",
                     <<Attribute("Label", NameA), Attribute("Value", Num(v))>>,
                     <<>>)>>)

TypedElementInputs ==
  {ElementInput("Tone", Tone128Element)}
  \cup {ElementInput(name, ValueElement(name, v)) : name \in {"Value", "Gate"},
                                                    v \in {10, 11}}

\* document trees: six places where an entity of the tree can be invalid
Slots == {"tone", "pc", "entry", "table", "templatePC", "timeSignature"}

DrumSetListWith(bad) ==
  DrumSetList(<<DrumMap(NameA,
    <<DrumPC(NameA, Num(1), <<IF bad THEN BadDrumBank ELSE GoodDrumBank>>)>>)>>)

InstrumentListWith(bad) ==
  InstrumentList(<<InstrumentMap(NameA,
    <<InstrumentPC(NameA, IF bad THEN Num(0) ELSE Num(1), <<GoodBank>>)>>)>>)

MacroListWith(badEntry, badTable) ==
  ControlChangeMacroList(
    <<CCMFolder(NameA, Undef,
        <<CCM(Num(1), NameA, Undef, Undef,
              <<Member("value",
                  Value(Window(<<Num(0), Num(10)>>),
                        <<Entry(NameA, IF badEntry THEN Num(11)
                                       ELSE Num(10))>>))>>)>>),
      Table(IF badTable THEN Num(-1) ELSE Num(0), <<>>)>>)

TemplateListWith(bad) ==
  TemplateList(<<TemplateFolder(NameA,
    <<Template(Num(0), NameA,
        <<TemplatePC(IF bad THEN Num(0) ELSE Num(1), Undef, Undef, Undef)>>)>>)>>)

DefaultDataWith(bad) ==
  DefaultData(<<Track(NameA, Num(1), Undef, Undef,
    <<Tempo(NumF(120, 5000), Undef, Undef),
      TimeSignature(Str(IF bad THEN <<"4", "/", "4", "x">>
                        ELSE <<"4", "/", "4">>), Undef, Undef)>>)>>)

\* a ModuleData with every list set, invalid in the places named by flaws;
\* data is the text of its ExclusiveEventDefault, Undef for none
TreeWith(flaws, name, data) ==
  ModuleData(name, Undef, Undef, Undef, Undef, Undef,
    (IF IsUndef(data) THEN <<>>
     ELSE <<Member("exclusiveEventDefault", ExclusiveEventDefault(data))>>)
    \o
    <<Member("instrumentList", InstrumentListWith("pc" \in flaws)),
      Member("drumSetList", DrumSetListWith("tone" \in flaws)),
      Member("controlChangeMacroList",
             MacroListWith("entry" \in flaws, "table" \in flaws)),
      Member("templateList", TemplateListWith("templatePC" \in flaws)),
      Member("defaultData", DefaultDataWith("timeSignature" \in flaws))>>)

TreeInputs == {TreeWith(flaws, NameA, Undef) : flaws \in SUBSET Slots}

\* files: names and exclusive-event data that read as text or as a number
FileInputs ==
  {File(TreeWith(flaws, name, data)) :
     flaws \in {{}, {"tone"}},
     name \in {NameA, Str(<<"0", "7">>)},
     data \in {Undef, Str(<<"F", "0">>), Str(<<"1", "2">>)}}

\* macro lists for the consistency check: ids that repeat, a negative
\* folder id, a folder without id that holds macros, a memo and a link
MaxMacros == 3
CCM1 == CCM(Num(1), NameA, Undef, Undef, <<>>)
Table0 == Table(Num(0), <<>>)
MacroNodes ==
  {CCM1, Table0,
   CCMFolder(NameA, Num(-1), <<>>),
   CCMFolder(NameA, Undef, <<CCM1, Table0>>),
   CCMFolder(NameA, Undef, <<>>),
   CCMFolder(NameA, Num(1),
             <<StringTag(<<"m">>), CCMLink(Num(1), Undef, Undef)>>)}

\* the macros with ids 1, 1, 3, 4, 5, 9, not in order
SixMacros ==
  <<CCM(Num(9), NameA, Undef, Undef, <<>>), CCM1,
    CCM(Num(4), NameA, Undef, Undef, <<>>), CCM1,
    CCM(Num(5), NameA, Undef, Undef, <<>>),
    CCM(Num(3), NameA, Undef, Undef, <<>>)>>

\* the macros with ids 3, 4, 5, 9, not in order
FourMacros ==
  <<CCM(Num(9), NameA, Undef, Undef, <<>>),
    CCM(Num(4), NameA, Undef, Undef, <<>>),
    CCM(Num(3), NameA, Undef, Undef, <<>>),
    CCM(Num(5), NameA, Undef, Undef, <<>>)>>

\* a macro, a folder, a table, a macro link and a folder link that all
\* have the id 1, and a memo
SharedIdMacros ==
  <<CCM1,
    CCMFolder(NameA, Num(1),
              <<Table(Num(1), <<>>), CCMLink(Num(1), Undef, Undef),
                CCMFolderLink(NameA, Num(1), Undef, Undef),
                StringTag(<<"m">>)>>)>>

\* the macro with id 1 at the top and once more two folders down
DeepMacros ==
  <<CCM1, CCMFolder(NameA, Num(3), <<CCMFolder(NameA, Num(4), <<CCM1>>)>>)>>

\* two macros with id 3 before two with id 1, and a folder that holds one
\* table twice
MixedDuplicates ==
  <<CCM(Num(3), NameA, Undef, Undef, <<>>),
    CCM(Num(3), NameA, Undef, Undef, <<>>), CCM1, CCM1,
    CCMFolder(NameA, Num(4), <<Table0, Table0>>)>>

MacroTreeInputs ==
  {ModuleData(NameA, Undef, Undef, Undef, Undef, Undef,
              <<Member("controlChangeMacroList", ControlChangeMacroList(tags))>>) :
     tags \in SeqsUpTo(MacroNodes, MaxMacros) \cup {SixMacros, FourMacros, SharedIdMacros,
                                                    DeepMacros, MixedDuplicates}}
  \cup {ModuleData(NameA, Undef, Undef, Undef, Undef, Undef, <<>>)}

\* a ModuleData whose caller listed two sub-trees in the order of the
\* declaration of tags, and one whose caller listed them the other way
OrderInputs ==
  {ModuleData(NameA, Undef, Undef, Undef, Undef, Undef, tags) :
     tags \in {<<Member("rhythmTrackDefault", RhythmTrackDefault(Num(1))),
                 Member("exclusiveEventDefault", ExclusiveEventDefault(NameA))>>,
               <<Member("exclusiveEventDefault", ExclusiveEventDefault(NameA)),
                 Member("rhythmTrackDefault", RhythmTrackDefault(Num(1)))>>}}

\* the other classes: values at both sides of every limit check() has,
\* and one entity of each class whose check() is empty
OtherInputs ==
  {Table(Num(i), <<Entry(NameA, Num(1))>>) : i \in {-1, 0}}
  \cup {TemplatePC(p, Undef, Undef, Undef) :
          p \in OptNums({0, 1, 128, 129})}
  \cup {Template(i, NameA, <<CC(Num(1), Undef, Undef), Memo(<<"m">>),
                             Comment(NameA)>>) : i \in OptNums({-1, 0})}
  \cup {Mark(Num(m), NameA) : m \in {0, 1}}
  \cup {Track(NameA, c, Undef, Undef, <<EOT(Num(0))>>) :
          c \in OptNums({0, 1, 16, 17})}
  \cup {DefaultDataPC(p, Undef, Undef, Undef, Undef, Undef) :
          p \in OptNums({0, 1, 128, 129})}
  \cup {RhythmTrackDefault(Num(1)), ExclusiveEventDefault(NameA),
        ExclusiveEventDefault(Str(<<"1", "2">>)),
        KeySignature(Str(<<"3">>), Undef, Undef),
        ProgramChangeEventPropertyDlg(Num(1)),
        ControlChangeEventDefault(Num(1)),
        CCMFolderLink(NameA, Num(1), Undef, Undef),
        CCMLink(Num(1), Undef, Undef), CC(Num(1), Undef, Undef),
        Memo(<<"m">>), Comment(NameA), Entry(NameA, Num(1)),
        DefaultDataTrackMark(NameA, Undef, Undef),
        Tempo(Num(120), Undef, Undef), KeySignature(NameA, Undef, Undef),
        DefaultDataCC(Num(1), Num(0), Undef, Undef, Undef),
        DefaultDataComment(NameA, Undef, Undef),
        DefaultDataTemplate(Num(1), Undef, Undef), EOT(Num(0))}
  \cup {InstrumentListWith(bad) : bad \in BOOLEAN}
  \cup {DrumSetListWith(bad) : bad \in BOOLEAN}
  \cup {MacroListWith(bad, FALSE) : bad \in BOOLEAN}
  \cup {TemplateListWith(bad) : bad \in BOOLEAN}
  \cup {DefaultDataWith(bad) : bad \in BOOLEAN}

\* the element a parser returns for what toXMLElement of t wrote
Parsed(t) == xml2js(Base_toXMLElement(t).val)

\* ModuleData elements: children of known names (one of them without the
\* attribute its decoder requires) and of a name no decoder knows, in any
\* order
MaxRootChildren == 3
RhythmTrackDefaultElement ==
  ElementElement("RhythmTrackDefault", <<Attribute("Gate", Num(1))>>, <<>>)
GatelessElement == ElementElement("RhythmTrackDefault", <<>>, <<>>)
ExclusiveEventDefaultElement ==
  ElementElement("ExclusiveEventDefault", <<Attribute("Data", NameA)>>, <<>>)
RootChildren ==
  {RhythmTrackDefaultElement, GatelessElement, ExclusiveEventDefaultElement,
   UnknownElement, Parsed(MacroListWith(FALSE, FALSE))}

ModuleDataElements ==
  {ElementElement("ModuleData",
                  IF named THEN <<Attribute("Name", NameA)>> ELSE <<>>, els) :
     named \in BOOLEAN, els \in SeqsUpTo(RootChildren, MaxRootChildren)}

\* documents: with and without declaration, the encoding label right,
\* wrong or missing, and up to MaxTopLevel elements at the top, named
\* ModuleData or not, readable or not
MaxTopLevel == 2
DocumentInput(doc) == [cls |-> "File", obj |-> NoObj, xml |-> doc]

Declarations ==
  {XmlJs(FALSE, <<>>, <<>>), XmlJs(TRUE, <<>>, <<>>),
   XmlJs(TRUE, <<Attribute("version", Str(xmlVersion))>>, <<>>)}
  \cup {XmlJs(TRUE, <<Attribute("version", Str(xmlVersion)),
                      Attribute("encoding", Str(label))>>, <<>>) :
          label \in {xmlEncoding, <<"U", "T", "F", "-", "8">>}}

TopLevelElements ==
  {ElementElement(name, IF named THEN <<Attribute("Name", NameA)>> ELSE <<>>,
                  <<child>>) :
     name \in {"ModuleData", "Other"}, named \in BOOLEAN,
     child \in {RhythmTrackDefaultElement, GatelessElement}}

Documents ==
  {[d EXCEPT !.elements = els] :
     d \in Declarations, els \in SeqsUpTo(TopLevelElements, MaxTopLevel)}

\* tracks: one event of every kind, and a second EOT to tell two events
\* of one kind apart, in every order of up to MaxEvents events; the same
\* as elements, and one track with all nine kinds
MaxEvents == 2
Events ==
  {DefaultDataTrackMark(NameA, Undef, Undef), Tempo(Num(120), Undef, Undef),
   TimeSignature(Str(<<"4", "/", "4">>), Undef, Undef),
   KeySignature(NameA, Undef, Undef),
   DefaultDataCC(Num(1), Num(0), Undef, Undef, Undef),
   DefaultDataPC(Num(1), Undef, Undef, Undef, Undef, Undef),
   DefaultDataComment(NameA, Undef, Undef),
   DefaultDataTemplate(Num(1), Undef, Undef), EOT(Num(0)), EOT(Num(1))}

NineEvents ==
  <<EOT(Num(1)), DefaultDataTemplate(Num(1), Undef, Undef),
    Tempo(Num(120), Undef, Undef), DefaultDataTrackMark(NameA, Undef, Undef),
    DefaultDataPC(Num(1), Undef, Undef, Undef, Undef, Undef),
    KeySignature(NameA, Undef, Undef),
    DefaultDataComment(NameA, Undef, Undef),
    TimeSignature(Str(<<"4", "/", "4">>), Undef, Undef),
    DefaultDataCC(Num(1), Num(0), Undef, Undef, Undef), EOT(Num(0))>>

TrackInputs ==
  {Track(NameA, Num(1), Undef, Undef, tags) :
     tags \in SeqsUpTo(Events, MaxEvents) \cup {NineEvents}}

TrackElements == {Parsed(t) : t \in TrackInputs}

\* a document with every list set and readable, and the same with one
\* node made unreadable: an attribute removed or given another value, or
\* the children removed
GoodRoot == xml2js(ModuleData_toXMLElement(TreeWith({}, NameA, Undef)).val)

Flaw(node, path, attr, value, childless) ==
  [node |-> node, path |-> path, attr |-> attr, value |-> value,
   childless |-> childless]

Flaws ==
  {Flaw("ModuleData", <<>>, "Name", Undef, FALSE),
   Flaw("Tone", <<2, 1, 1, 1, 1>>, "Key", Undef, FALSE),
   Flaw("Entry", <<3, 1, 1, 1, 1>>, "Value", Str(<<"x">>), FALSE),
   Flaw("Value", <<3, 1, 1, 1>>, "Type", Str(<<"N", "o", "t", "e">>), FALSE),
   Flaw("CCM", <<3, 1, 1>>, "Sync", Str(<<"N", "o">>), FALSE),
   Flaw("PC", <<4, 1, 1, 1>>, "Mode", Str(<<"N", "o">>), FALSE),
   Flaw("Track", <<5, 1>>, "Mode", Str(<<"N", "o">>), FALSE),
   Flaw("TimeSignature", <<5, 1, 2>>, "TimeSignature", Undef, FALSE),
   Flaw("PC", <<1, 1, 1>>, "", Undef, TRUE)}

RECURSIVE NodeAt(_, _)
NodeAt(e, path) ==
  IF path = <<>> THEN e ELSE NodeAt(e.elements[Head(path)], Tail(path))

RECURSIVE Damaged(_, _, _)
Damaged(e, path, flaw) ==
  IF path = <<>>
  THEN LET Other(a) == a.name # flaw.attr
       IN [e EXCEPT
             !.attributes =
               SelectSeq(@, Other)
                 \o (IF IsUndef(flaw.value) THEN <<>>
                     ELSE <<Attribute(flaw.attr, flaw.value)>>),
             !.elements = IF flaw.childless THEN <<>> ELSE @]
  ELSE [e EXCEPT !.elements[Head(path)] = Damaged(@, Tail(path), flaw)]

DamagedRoots == {Damaged(GoodRoot, flaw.path, flaw) : flaw \in Flaws}

GoodDeclaration ==
  XmlJs(TRUE, <<Attribute("version", Str(xmlVersion)),
                Attribute("encoding", Str(xmlEncoding))>>, <<>>)

\* one readable element of every class that holds children, as it is and
\* with a child of a name no decoder knows put before or after its
\* children: once without attributes, once with those of an Entry
GoodValue == Value(Window(<<Num(0), Num(10)>>), <<Entry(NameA, Num(10))>>)
GoodGate == Gate(Window(<<Num(0), Num(10)>>), <<Entry(NameA, Num(10))>>)
GoodCCM ==
  CCM(Num(1), NameA, Undef, Undef,
      <<Member("value", GoodValue), Member("gate", GoodGate)>>)
GoodTemplate ==
  Template(Num(0), NameA, <<TemplatePC(Num(1), Undef, Undef, Undef)>>)
GoodTrack == Track(NameA, Num(1), Undef, Undef, <<EOT(Num(0))>>)

Containers ==
  {ControlChangeMacroList(<<GoodCCM>>), CCMFolder(NameA, Undef, <<GoodCCM>>),
   GoodCCM, GoodValue, GoodGate, Table(Num(0), <<Entry(NameA, Num(1))>>),
   TemplateList(<<GoodTemplate>>), TemplateFolder(NameA, <<GoodTemplate>>),
   GoodTemplate, DefaultData(<<GoodTrack>>), GoodTrack,
   InstrumentMap(NameA, <<InstrumentPC(NameA, Num(1), <<GoodBank>>)>>),
   DrumMap(NameA, <<DrumPC(NameA, Num(1), <<GoodDrumBank>>)>>),
   InstrumentPC(NameA, Num(1), <<GoodBank>>),
   DrumPC(NameA, Num(1), <<GoodDrumBank>>), GoodDrumBank}

UnknownEntryElement ==
  ElementElement("Unknown",
                 <<Attribute("Label", NameA), Attribute("Value", Num(1))>>,
                 <<>>)

WithChild(e, child, first) ==
  [e EXCEPT !.elements = IF first THEN <<child>> \o @ ELSE Append(@, child)]

ContainerElements ==
  {ElementInput(t.cls, Parsed(t)) : t \in Containers}
  \cup {ElementInput(t.cls, WithChild(Parsed(t), child, first)) :
          t \in Containers, child \in {UnknownElement, UnknownEntryElement},
          first \in BOOLEAN}

Inputs ==
  {EntityInput(t) : t \in ToneInputs \cup BankInputs \cup DrumBankInputs
                            \cup PCInputs \cup CCMInputs \cup ValueInputs
                            \cup TimeSignatureInputs \cup TreeInputs
                            \cup FileInputs \cup MacroTreeInputs
                            \cup OrderInputs \cup TrackInputs
                            \cup OtherInputs}
  \cup {ElementInput(cls, e) : cls \in {"InstrumentPC", "DrumPC"},
                               e \in PCElements}
  \cup TypedElementInputs
  \cup {ElementInput("ModuleData", e) : e \in ModuleDataElements}
  \cup {DocumentInput(doc) : doc \in Documents}
  \cup {ElementInput("Track", e) : e \in TrackElements}
  \cup ContainerElements
  \cup {ElementInput("ModuleData", e) : e \in DamagedRoots \cup {GoodRoot}}
  \cup {DocumentInput([GoodDeclaration EXCEPT !.elements = <<e>>]) :
          e \in DamagedRoots \cup {GoodRoot}}

\* ------------------------------------------------------------------------
\* The state machine: a caller holds an entity (obj) and/or a document
\* (xml) and calls the public operations on them
\* ------------------------------------------------------------------------

Init ==
  /\ input \in Inputs
  /\ obj = input.obj
  /\ xml = input.xml
  /\ err = ""
  /\ log = <<>>
  /\ ops = <<>>

\* obj.check()
Check ==
  /\ Len(ops) < MaxOps
  /\ obj.cls \notin {"none", "File"}
  /\ err' = IF obj.cls = "ModuleData" THEN "" ELSE Base_check(obj)
  /\ log' = IF obj.cls = "ModuleData" THEN ModuleData_check(obj) ELSE <<>>
  /\ obj' = IF obj.cls = "ModuleData" THEN ModuleData_checked(obj) ELSE obj
  /\ ops' = Append(ops, "check")
  /\ UNCHANGED <<input, xml>>

\* an encoder that runs check() before it encodes the sub-trees: the lines
\* are logged whether the call returns or throws
Returned_checkFirst(r, lines) ==
  /\ xml' = IF r.ok THEN r.val ELSE NoXml
  /\ err' = r.err
  /\ log' = lines

\* an encoder returned or threw; lines are what a completed call logged
Returned(r, lines) ==
  /\ xml' = IF r.ok THEN r.val ELSE NoXml
  /\ err' = r.err
  /\ log' = IF r.ok THEN lines ELSE <<>>

\* a decoder returned or threw
Constructed(r) ==
  /\ obj' = r.val
  /\ err' = r.err
  /\ log' = <<>>

\* xml = obj.toXMLElement()
ToXMLElement ==
  /\ Len(ops) < MaxOps
  /\ obj.cls \notin {"none", "File"}
  /\ IF obj.cls = "ModuleData"
     THEN Returned(ModuleData_toXMLElement(obj), ModuleData_check(obj))
     ELSE Returned(Base_toXMLElement(obj), <<>>)
  /\ obj' = IF obj.cls = "ModuleData" /\ ModuleData_toXMLElement(obj).ok
            THEN ModuleData_checked(obj) ELSE obj
  /\ ops' = Append(ops, "toXMLElement")
  /\ UNCHANGED input

\* obj = Class.fromXMLElement(xml)
FromXMLElement ==
  /\ Len(ops) < MaxOps
  /\ xml.type = "element"
  /\ IF input.cls = "ModuleData"
     THEN Constructed(ModuleData_fromXMLElement(xml))
     ELSE Constructed(Base_fromXMLElement(input.cls, xml))
  /\ ops' = Append(ops, "fromXMLElement")
  /\ UNCHANGED <<input, xml>>

\* xml = file.toXML()
ToXML ==
  /\ Len(ops) < MaxOps
  /\ obj.cls = "File"
  /\ Returned(File_toXML(obj), ModuleData_check(obj.moduleData))
  /\ obj' = IF File_toXML(obj).ok
            THEN [obj EXCEPT !.moduleData = ModuleData_checked(@)] ELSE obj
  /\ ops' = Append(ops, "toXML")
  /\ UNCHANGED input

\* obj = File.fromXML(xml)
FromXML ==
  /\ Len(ops) < MaxOps
  /\ xml.type = "xmljs"
  /\ Constructed(File_fromXML(xml))
  /\ ops' = Append(ops, "fromXML")
  /\ UNCHANGED <<input, xml>>

Next == Check \/ ToXMLElement \/ FromXMLElement \/ ToXML \/ FromXML

Spec == Init /\ [][Next]_vars

\* ------------------------------------------------------------------------
\* Properties
\* ------------------------------------------------------------------------

\* the call that led to this state
Called(op) == ops # <<>> /\ ops[Len(ops)] = op

InRange(v, low, high) == IsNumber(v) /\ low <= v.n /\ v.n <= high /\
                         (v.n < high \/ v.f = 0)

\* C4: check() of an InstrumentPC or a DrumPC succeeds exactly when
\* 1 <= pc <= 128; it throws for 0 and 129 and returns for 1 and 128.
C4_ProgramNumberRange ==
  (Called("check") /\ obj.cls \in {"InstrumentPC", "DrumPC"}) =>
    /\ err = "" <=> InRange(obj.pc, 1, 128)
    /\ obj.pc \in {Num(0), Num(129)} => err # ""
    /\ obj.pc \in {Num(1), Num(128)} => err = ""

C4_Witness_Accepts128 ==
  Called("check") /\ obj.cls = "DrumPC" /\ obj.pc = Num(128) /\ err = ""

C4_Witness_Rejects129 ==
  Called("check") /\ obj.cls = "InstrumentPC" /\ obj.pc = Num(129) /\ err # ""

\* the tones a bank owns: none for a Bank
TonesOf(bank) == IF bank.cls = "DrumBank" THEN bank.tones ELSE <<>>

\* C5: toXMLElement() of a Bank or a DrumBank returns an element exactly
\* when lsb, if present, and msb, if present, lie in 0..255 and every tone
\* of a DrumBank has 0 <= key <= 127.
C5_BankEncodes ==
  (Called("toXMLElement") /\ obj.cls \in {"Bank", "DrumBank"}) =>
    ((xml.type = "element" /\ err = "")
       <=> /\ IsUndef(obj.lsb) \/ InRange(obj.lsb, 0, 255)
           /\ IsUndef(obj.msb) \/ InRange(obj.msb, 0, 255)
           /\ \A i \in 1..Len(TonesOf(obj)) :
                InRange(TonesOf(obj)[i].key, 0, 127))

C5_Witness_DrumBankEncoded ==
  /\ Called("toXMLElement") /\ obj.cls = "DrumBank"
  /\ obj.lsb = Num(0) /\ obj.msb = Num(255)
  /\ Len(obj.tones) = 2 /\ obj.tones[1].key = Num(0)
  /\ obj.tones[2].key = Num(127)
  /\ xml.type = "element" /\ Len(xml.elements) = 2

\* C6: check() of a CCM succeeds exactly when 0 <= id <= 1300 and the
\* colour is absent or a string that starts with #.
C6_CCMIdAndColor ==
  (Called("check") /\ obj.cls = "CCM") =>
    (err = "" <=> /\ InRange(obj.param.id, 0, 1300)
                  /\ \/ IsUndef(obj.param.color)
                     \/ /\ IsString(obj.param.color)
                        /\ obj.param.color.s # <<>>
                        /\ obj.param.color.s[1] = "#")

C6_Witness_HashColorAccepted ==
  /\ Called("check") /\ obj.cls = "CCM" /\ obj.param.id = Num(1300)
  /\ obj.param.color = Str(<<"#", "F", "F", "0", "0", "0", "0">>) /\ err = ""

\* digits("/"digits)* read off the characters: only digits and separators,
\* no separator first, last or next to another one
DigitsSlashDigits(t) ==
  /\ t # <<>>
  /\ \A i \in 1..Len(t) : IsDigit(t[i]) \/ t[i] = "/"
  /\ t[1] # "/" /\ t[Len(t)] # "/"
  /\ \A i \in 1..(Len(t) - 1) : ~(t[i] = "/" /\ t[i + 1] = "/")

\* C7: check() of a TimeSignature succeeds exactly when the text is one or
\* more non-empty digit runs separated by single / characters.
C7_TimeSignatureFormat ==
  (Called("check") /\ obj.cls = "TimeSignature") =>
    (err = "" <=> DigitsSlashDigits(obj.param.timeSignature.s))

C7_Witness_FourFourAccepted ==
  /\ Called("check") /\ obj.cls = "TimeSignature"
  /\ obj.param.timeSignature = Str(<<"4", "/", "4">>) /\ err = ""

C7_Witness_TrailingSlashRejected ==
  /\ Called("check") /\ obj.cls = "TimeSignature"
  /\ obj.param.timeSignature = Str(<<"4", "/">>) /\ err # ""

\* a Bank element that Bank.fromXMLElement reads, and one that
\* DrumBank.fromXMLElement reads
BankReads(e) ==
  /\ ~IsUndef(Attr(e, "Name"))
  /\ IsUndef(Attr(e, "LSB")) \/ IsNumber(Attr(e, "LSB"))
  /\ IsUndef(Attr(e, "MSB")) \/ IsNumber(Attr(e, "MSB"))

DrumBankReads(e) ==
  /\ BankReads(e)
  /\ \A i \in 1..Len(e.elements) :
       (e.elements[i].type = "element" /\ e.elements[i].name = "Tone")
         => /\ ~IsUndef(Attr(e.elements[i], "Name"))
            /\ IsNumber(Attr(e.elements[i], "Key"))

\* C8: fromXMLElement of InstrumentPC and of DrumPC on a PC element with
\* Name and a numeric PC throws the not-found-Bank error when the element
\* has no Bank child, and returns a PC with one bank per Bank child when it
\* has at least one and every Bank child is itself readable.
C8_DecodeNeedsBank ==
  (ops = <<"fromXMLElement">> /\ input.cls \in {"InstrumentPC", "DrumPC"}
     /\ ~IsUndef(Attr(xml, "Name")) /\ IsNumber(Attr(xml, "PC"))) =>
    LET banks == ChildElements(xml, {"Bank"})
    IN /\ banks = <<>> =>
            (err = "Invalid XML: Not found Bank" /\ obj = NoObj)
       /\ (banks # <<>> /\ \A i \in 1..Len(banks) :
                             IF input.cls = "DrumPC" THEN DrumBankReads(banks[i])
                             ELSE BankReads(banks[i])) =>
            (err = "" /\ obj.cls = input.cls /\ Len(obj.banks) = Len(banks))

C8_Witness_NoBankChild ==
  /\ ops = <<"fromXMLElement">> /\ input.cls = "DrumPC"
  /\ ~IsUndef(Attr(xml, "Name")) /\ IsNumber(Attr(xml, "PC"))
  /\ xml.elements = <<UnknownElement>>
  /\ err = "Invalid XML: Not found Bank"

C8_Witness_OneBankChild ==
  /\ ops = <<"fromXMLElement">> /\ input.cls = "InstrumentPC"
  /\ Len(ChildElements(xml, {"Bank"})) = 1
  /\ err = "" /\ obj.cls = "InstrumentPC" /\ Len(obj.banks) = 1

\* C9: check() of a Value or a Gate that has both min and max succeeds
\* exactly when every entry has min <= value <= max.
C9_EntryBounds ==
  (Called("check") /\ obj.cls \in {"Value", "Gate"}
     /\ ~IsUndef(obj.param.min) /\ ~IsUndef(obj.param.max)) =>
    (err = "" <=> \A i \in 1..Len(obj.tags) :
                    /\ obj.param.min.n <= obj.tags[i].param.value.n
                    /\ obj.tags[i].param.value.n <= obj.param.max.n)

C9_Witness_TenPasses ==
  /\ Called("check") /\ obj.cls = "Gate"
  /\ obj.param.min = Num(0) /\ obj.param.max = Num(10)
  /\ obj.tags = <<Entry(NameA, Num(10))>> /\ err = ""

C9_Witness_ElevenFails ==
  /\ Called("check") /\ obj.cls = "Value"
  /\ obj.param.min = Num(0) /\ obj.param.max = Num(10)
  /\ obj.tags = <<Entry(NameA, Num(11))>> /\ err # ""

\* the entities an entity holds
Children(t) ==
  CASE t.cls = "File" -> {t.moduleData}
    [] t.cls \in {"ModuleData", "CCM"} ->
         {t.tags[i].tag : i \in 1..Len(t.tags)}
    [] t.cls \in {"InstrumentList", "DrumSetList"} ->
         {t.maps[i] : i \in 1..Len(t.maps)}
    [] t.cls \in {"InstrumentMap", "DrumMap"} ->
         {t.pcs[i] : i \in 1..Len(t.pcs)}
    [] t.cls \in {"InstrumentPC", "DrumPC"} ->
         {t.banks[i] : i \in 1..Len(t.banks)}
    [] t.cls = "DrumBank" -> {t.tones[i] : i \in 1..Len(t.tones)}
    [] t.cls \in {"ControlChangeMacroList", "CCMFolder", "Value", "Gate",
                  "Table", "TemplateList", "TemplateFolder", "Template",
                  "DefaultData", "Track"} ->
         {t.tags[i] : i \in 1..Len(t.tags)}
    [] OTHER -> {}

\* the entities of a tree: its root and everything below it
RECURSIVE Entities(_)
Entities(t) == {t} \cup UNION {Entities(c) : c \in Children(t)}

\* an entity's own check() returns; ModuleData.check() and File, which has
\* none, never throw, and a memo string has no check
Validates(t) ==
  t.cls \in {"File", "ModuleData", "string"} \/ Base_check(t) = ""

AllValid(t) == \A d \in Entities(t) : Validates(d)

\* C2: toXMLElement() of an entity, and toXML() of a File, return an
\* element only if check() succeeds for the entity and for every entity
\* below it; if one of them is invalid the call throws and returns nothing.
C2_EncodeFailsClosed ==
  (Called("toXMLElement") \/ Called("toXML")) =>
    /\ xml.type # "none" => (AllValid(obj) /\ err = "")
    /\ ~AllValid(obj) => (xml = NoXml /\ err # "")

\* a tone five levels below the root is invalid and nothing is returned
C2_Witness_DeepInvalidTone ==
  /\ Called("toXMLElement") /\ obj = TreeWith({"tone"}, NameA, Undef)
  /\ xml = NoXml /\ err = "Key must be between 0 and 127."

\* the messages of the check() methods
ValidationErrors ==
  {"Key must be between 0 and 127.", "LSB must be between 0 and 255.",
   "MSB must be between 0 and 255.", "PC must be between 1 and 128.",
   "Entry Value must be between min and max.", "Table ID must be 0 or more.",
   "CCM ID must be between 0 and 1300.", "CCM Color must start with #.",
   "PC PC must be 1 or more less than 128.", "Template ID must be 0 or more.",
   "Mark Meas must be 1 or more.",
   "DefaultData PC PC must be 1 or more and 128 or less.",
   "Track Ch must be 1 or more and 16 or less.",
   "TimeSignature TimeSignature does not follow format."}

\* elements of the right types whose values check() rejects: a PC element
\* with program number 0, a Tone with key 128, a Value with min 0, max 10
\* and an entry of 11
TypedButInvalid(cls, e) ==
  \/ /\ cls \in {"InstrumentPC", "DrumPC"}
     /\ ~IsUndef(Attr(e, "Name")) /\ Attr(e, "PC") = Num(0)
     /\ ChildElements(e, {"Bank"}) # <<>>
     /\ \A i \in 1..Len(e.elements) : e.elements[i] = BankElement
  \/ cls = "Tone" /\ e = Tone128Element
  \/ cls \in {"Value", "Gate"} /\ e = ValueElement(cls, 11)

\* C3: fromXMLElement never runs check(): it never throws a validation
\* error, it returns for an element whose fields are well typed and
\* violate a check() rule, and toXMLElement() of what it returned then
\* throws a validation error.
C3_DecodeDoesNotValidate ==
  /\ (Called("fromXMLElement") \/ Called("fromXML")) =>
       err \notin ValidationErrors
  /\ (input.obj = NoObj /\ TypedButInvalid(input.cls, input.xml)) =>
       /\ ops = <<"fromXMLElement">> =>
            (err = "" /\ obj.cls = input.cls /\ ~AllValid(obj))
       /\ ops = <<"fromXMLElement", "toXMLElement">> =>
            (xml = NoXml /\ err \in ValidationErrors)

C3_Witness_Key128Decoded ==
  /\ ops = <<"fromXMLElement", "toXMLElement">>
  /\ input.cls = "Tone" /\ obj = Tone(NameA, Num(128))
  /\ xml = NoXml /\ err = "Key must be between 0 and 127."

\* C1: for a File whose entities all pass check(), fromXML(toXML(file))
\* returns a File equal to the original in every populated field and in
\* the order of every list: one that toXML() writes as the same document,
\* which has the populated fields only and Tempo with three decimals.
C1_RoundTrip ==
  (ops = <<"toXML", "fromXML">> /\ AllValid(input.obj)) =>
    (err = "" /\ obj.cls = "File" /\ File_toXML(obj) = Ok(xml))

\* the same for the files that hold no text that reads as a number
C1_RoundTripOfPlainText ==
  (ops = <<"toXML", "fromXML">> /\ AllValid(input.obj)
     /\ input.obj.moduleData.name = NameA
     /\ ~HasKey(input.obj.moduleData.tags, "exclusiveEventDefault")) =>
    (err = "" /\ obj = input.obj)

\* the nodes of one kind in the macro list, at any depth
MacroNodesOf(t, cls) ==
  IF HasKey(t.tags, "controlChangeMacroList")
  THEN OfClass(flatMapFlatFn(GetKey(t.tags, "controlChangeMacroList").tags),
               cls)
  ELSE <<>>

Occurrences(t, cls, id) ==
  Cardinality({i \in 1..Len(MacroNodesOf(t, cls)) :
                 MacroNodesOf(t, cls)[i].param.id = id})

DuplicateErrors(lines, type, id) ==
  Cardinality({i \in 1..Len(lines) :
                 lines[i] = ErrorLine(type, id)})

MacroIds == {Num(i) : i \in {-1, 0, 1, 3, 4, 5, 9}}

\* C10: for each kind the check logs, for an id that k nodes of the kind
\* carry, k - 1 duplicate errors naming the kind and the id, and none for
\* an id that no node of the kind carries.
C10_DuplicatesPerId ==
  (Called("check") /\ obj.cls = "ModuleData") =>
    \A kind \in {"CCMFolder", "CCM", "Table"}, id \in MacroIds :
      LET k == Occurrences(obj, kind, id)
      IN DuplicateErrors(log, TypeName([cls |-> kind]), id)
           = IF k = 0 THEN 0 ELSE k - 1

\* the same for the ids that are not -1
C10_DuplicatesPerIdButMinusOne ==
  (Called("check") /\ obj.cls = "ModuleData") =>
    \A kind \in {"CCMFolder", "CCM", "Table"}, id \in MacroIds \ {Num(-1)} :
      LET k == Occurrences(obj, kind, id)
      IN DuplicateErrors(log, TypeName([cls |-> kind]), id)
           = IF k = 0 THEN 0 ELSE k - 1

\* the ids that the nodes of one kind carry
IdsOf(t, cls) ==
  {MacroNodesOf(t, cls)[i].param.id.n :
     i \in {j \in 1..Len(MacroNodesOf(t, cls)) :
              ~IsUndef(MacroNodesOf(t, cls)[j].param.id)}}

\* the last integer of the run of consecutive integers of S that holds x
RunEnd(S, x) ==
  CHOOSE y \in S : y >= x /\ (\A z \in x..y : z \in S) /\ (y + 1) \notin S

\* the maximal runs of S in ascending order, a run of one as the bare
\* number and a longer one as start-end, with sep between two runs and
\* end after the last
RECURSIVE RangeText(_, _, _)
RangeText(S, sep, end) ==
  IF S = {} THEN <<>>
  ELSE LET x == CHOOSE a \in S : \A b \in S : a <= b
           y == RunEnd(S, x)
           run == IF x = y THEN NumToStr(Num(x))
                  ELSE NumToStr(Num(x)) \o <<"-">> \o NumToStr(Num(y))
           rest == S \ (x..y)
       IN IF rest = {} THEN run \o end
          ELSE run \o sep \o RangeText(rest, sep, end)

Kinds == {"CCMFolder", "CCM", "Table"}

\* C11: the used-id report of a kind reads the maximal runs of consecutive
\* ids in ascending order, a run of one as the bare number and a longer one
\* as start-end, separated by single spaces: 3,4,5,9 read "3-5 9" and
\* 1,1,3,4,5,9 read "1 3-5 9".
C11_RangeReport ==
  (Called("check") /\ obj.cls = "ModuleData") =>
    \A kind \in Kinds :
      IdsOf(obj, kind) # {} =>
        \E i \in 1..Len(log) :
          log[i] = InfoLine(TypeName([cls |-> kind]),
                            RangeText(IdsOf(obj, kind), <<" ">>, <<>>))

\* what the report reads: every run, the last one too, is followed by a
\* space
C11_RangeReportEndsWithSpace ==
  (Called("check") /\ obj.cls = "ModuleData") =>
    \A kind \in Kinds :
      IdsOf(obj, kind) # {} =>
        \E i \in 1..Len(log) :
          log[i] = InfoLine(TypeName([cls |-> kind]),
                            RangeText(IdsOf(obj, kind), <<" ">>, <<" ">>))

\* the ModuleData that the last call worked on
Root == IF obj.cls = "File" THEN obj.moduleData ELSE obj

Encoding == Called("toXMLElement") \/ Called("toXML")

HasErrorLine == \E i \in 1..Len(log) : log[i].level = "error"

\* C12: check() of a ModuleData returns normally whatever the tree holds,
\* and encoding a ModuleData or a File whose entities all pass their own
\* check() succeeds whatever check() of the ModuleData logs.
C12_CheckerNeverBlocks ==
  /\ (Called("check") /\ obj.cls = "ModuleData") => err = ""
  /\ (Encoding /\ obj.cls \in {"ModuleData", "File"} /\ AllValid(Root)) =>
       /\ err = ""
       /\ xml.type \in {"element", "xmljs"}
       /\ log = ModuleData_check(Root)

\* a tree with a duplicate id is encoded, the error logged
C12_Witness_EncodedWithDuplicates ==
  /\ Encoding
  /\ obj.cls = "ModuleData"
  /\ AllValid(obj)
  /\ HasErrorLine
  /\ err = ""
  /\ xml.type = "element"

\* the child elements of e, text nodes left out
ElementsOf(e) ==
  LET IsElement(c) == c.type = "element"
  IN SelectSeq(e.elements, IsElement)

HasUnknownChild(e, names) ==
  \E i \in 1..Len(ElementsOf(e)) : ElementsOf(e)[i].name \notin names

\* the attributes of the root and every child of a known name are such
\* that the child's own decoder accepts it
RootWellFormed(e) ==
  /\ ~IsUndef(Attr(e, "Name"))
  /\ IsUndef(Attr(e, "Priority")) \/ IsNumber(Attr(e, "Priority"))
  /\ \A i \in 1..Len(ElementsOf(e)) :
       ElementsOf(e)[i].name \in ModuleDataNames =>
         Base_fromXMLElement(ElementsOf(e)[i].name, ElementsOf(e)[i]).ok

DecodedRoot ==
  /\ ops = <<"fromXMLElement">>
  /\ input.cls = "ModuleData"
  /\ xml.type = "element"

\* C13: decoding a ModuleData element that holds a child of a name that is
\* none of the nine sub-tree names does not fail when the rest of the
\* element is well formed, and the result has a sub-tree set exactly where
\* a child of that sub-tree's name is present.
C13_UnknownRootChildSkipped ==
  (DecodedRoot /\ HasUnknownChild(xml, ModuleDataNames)
     /\ RootWellFormed(xml)) =>
    /\ err = ""
    /\ obj.cls = "ModuleData"
    /\ \A name \in ModuleDataNames :
         HasKey(obj.tags, ModuleDataKey(name))
           <=> \E i \in 1..Len(ElementsOf(xml)) : ElementsOf(xml)[i].name = name
    /\ \A i \in 1..Len(obj.tags) :
         \E name \in ModuleDataNames : obj.tags[i].key = ModuleDataKey(name)

\* an unknown child before a RhythmTrackDefault child: the only sub-tree
\* set is rhythmTrackDefault
C13_Witness_UnknownThenKnown ==
  /\ DecodedRoot
  /\ Len(xml.elements) = 2
  /\ xml.elements[1] = UnknownElement
  /\ xml.elements[2] = RhythmTrackDefaultElement
  /\ err = ""
  /\ Len(obj.tags) = 1
  /\ obj.tags[1] = Member("rhythmTrackDefault", RhythmTrackDefault(Num(1)))

\* File.fromXML was called on the document the caller came with
DecodedDocument ==
  /\ ops = <<"fromXML">>
  /\ input.obj = NoObj
  /\ xml = input.xml

\* the errors File.fromXML raises before it calls a decoder
EnvelopeErrors == {"Invalid XML", "Invalid encoding", "TypeError"}

RootDecodeFails(doc) ==
  doc.elements # <<>> /\ ~ModuleData_fromXMLElement(doc.elements[1]).ok

\* C14: decoding a document without declaration, or with a declaration
\* whose encoding label is not Shift_JIS, fails, and with an error of the
\* envelope: never with the error of a decoder, whatever the root element
\* holds.
C14_DeclarationFirst ==
  (DecodedDocument
     /\ (~xml.hasDeclaration \/ Attr(xml, "encoding") # Str(xmlEncoding))) =>
    /\ obj = NoObj
    /\ err \in EnvelopeErrors
    /\ ~xml.hasDeclaration => err = "Invalid XML"
    /\ (xml.hasDeclaration /\ ~IsUndef(Attr(xml, "encoding")))
         => err = "Invalid encoding"

\* a UTF-8 document whose root element no decoder would accept fails with
\* the encoding error
C14_Witness_Utf8BeforeBadRoot ==
  /\ DecodedDocument
  /\ xml.hasDeclaration
  /\ Attr(xml, "encoding") = Str(<<"U", "T", "F", "-", "8">>)
  /\ RootDecodeFails(xml)
  /\ err = "Invalid encoding"

DeclarationAccepted(doc) ==
  doc.hasDeclaration /\ Attr(doc, "encoding") = Str(xmlEncoding)

\* exactly one element at the top, named ModuleData
OneRootNamedModuleData(doc) ==
  Len(doc.elements) = 1 /\ doc.elements[1].name = "ModuleData"

\* C15: a document whose declaration is accepted and that has no root
\* element, a root element of another name than ModuleData, or more than
\* one top-level element fails with the missing-root error and is not
\* handed to the decoder of ModuleData.
C15_OneRootNamedModuleData ==
  (DecodedDocument /\ DeclarationAccepted(xml)
     /\ ~OneRootNamedModuleData(xml)) =>
    /\ obj = NoObj
    /\ err = "Invalid XML: Not found ModuleData"

\* what the code requires: a first top-level node that is an element
C15_SomeFirstElement ==
  (DecodedDocument /\ DeclarationAccepted(xml)) =>
    /\ xml.elements = <<>> =>
         (obj = NoObj /\ err = "Invalid XML: Not found ModuleData")
    /\ xml.elements # <<>> =>
         /\ obj = Filed(ModuleData_fromXMLElement(xml.elements[1])).val
         /\ err = Filed(ModuleData_fromXMLElement(xml.elements[1])).err

\* the ModuleData element that the last encoding call returned
EncodedRoot == IF xml.type = "xmljs" THEN xml.elements[1] ELSE xml

\* the place of a sub-tree in the declaration of ModuleData.tags
DeclarationIndex(name) ==
  CASE name = "RhythmTrackDefault" -> 1
    [] name = "ExclusiveEventDefault" -> 2
    [] name = "ProgramChangeEventPropertyDlg" -> 3
    [] name = "ControlChangeEventDefault" -> 4
    [] name = "InstrumentList" -> 5
    [] name = "DrumSetList" -> 6
    [] name = "ControlChangeMacroList" -> 7
    [] name = "TemplateList" -> 8
    [] name = "DefaultData" -> 9

EncodedModuleData ==
  /\ Encoding
  /\ obj.cls \in {"ModuleData", "File"}
  /\ err = ""

\* C16: the element that encoding a ModuleData returns holds the sub-trees
\* in the order of the declaration of tags, in whatever order the caller
\* listed them or the decoded document held them.
C16_DeclarationOrder ==
  EncodedModuleData =>
    \A i, j \in 1..Len(EncodedRoot.elements) :
      i < j => DeclarationIndex(EncodedRoot.elements[i].name)
                 < DeclarationIndex(EncodedRoot.elements[j].name)

\* what the code emits: the sub-trees in the order in which the keys of
\* tags were first assigned
C16_InsertionOrder ==
  EncodedModuleData =>
    /\ Len(EncodedRoot.elements) = Len(Root.tags)
    /\ \A i \in 1..Len(Root.tags) :
         Root.tags[i].key = ModuleDataKey(EncodedRoot.elements[i].name)

EventNames ==
  {"Mark", "Tempo", "TimeSignature", "KeySignature", "CC", "PC", "Comment",
   "Template", "EOT"}

\* the element name of an event of a Track
EventName(tag) ==
  CASE tag.cls = "DefaultDataTrackMark" -> "Mark"
    [] tag.cls = "Tempo" -> "Tempo"
    [] tag.cls = "TimeSignature" -> "TimeSignature"
    [] tag.cls = "KeySignature" -> "KeySignature"
    [] tag.cls = "DefaultDataCC" -> "CC"
    [] tag.cls = "DefaultDataPC" -> "PC"
    [] tag.cls = "DefaultDataComment" -> "Comment"
    [] tag.cls = "DefaultDataTemplate" -> "Template"
    [] tag.cls = "EOT" -> "EOT"

\* the kind of every event and, for an EOT, its tick: what tells the
\* events of the model apart
EventsOf(tags) ==
  [i \in 1..Len(tags) |->
     <<EventName(tags[i]),
       IF tags[i].cls = "EOT" THEN tags[i].param.tick ELSE Undef>>]

\* the same of the child elements that are events
EventsIn(e) ==
  LET IsEvent(c) == c.type = "element" /\ c.name \in EventNames
      els == SelectSeq(e.elements, IsEvent)
  IN [i \in 1..Len(els) |->
        <<els[i].name,
          IF els[i].name = "EOT" THEN Attr(els[i], "Tick") ELSE Undef>>]

OnTrack == input.cls = "Track" /\ err = ""

\* C17: decoding a Track gives its events in the order of the child
\* elements, encoding a Track gives the child elements in the order of
\* its events, and so encode then decode and decode then encode keep the
\* order of the events of all nine kinds.
C17_TrackOrder ==
  /\ (OnTrack /\ Called("fromXMLElement")) => EventsOf(obj.tags) = EventsIn(xml)
  /\ (OnTrack /\ Called("toXMLElement")) => EventsIn(xml) = EventsOf(obj.tags)
  /\ (OnTrack /\ ops = <<"toXMLElement", "fromXMLElement">>) =>
       EventsOf(obj.tags) = EventsOf(input.obj.tags)
  /\ (OnTrack /\ ops = <<"fromXMLElement", "toXMLElement">>) =>
       EventsIn(xml) = EventsIn(input.xml)

\* the Track element with all nine kinds, decoded and encoded again
C17_Witness_NineKindsRoundTrip ==
  /\ OnTrack
  /\ ops = <<"fromXMLElement", "toXMLElement">>
  /\ EventsIn(input.xml) = EventsOf(NineEvents)
  /\ EventsOf(obj.tags) = EventsOf(NineEvents)
  /\ EventsIn(xml) = EventsOf(NineEvents)

\* the ModuleData element that the caller came with
InputRoot ==
  IF input.xml.type # "xmljs" THEN input.xml
  ELSE IF input.xml.elements = <<>> THEN NoXml
  ELSE input.xml.elements[1]

\* the caller's document or ModuleData element was decoded
DecodedInput ==
  \/ DecodedDocument /\ DeclarationAccepted(xml) /\ xml.elements # <<>>
  \/ DecodedRoot /\ xml = input.xml

\* C18: when a node at any depth of a document lacks a required attribute
\* or child, has an attribute of the wrong type or an enum value outside
\* its set, decoding the document fails with an error and returns nothing;
\* the same document without the flaw is decoded.
C18_DecodeAtomic ==
  DecodedInput =>
    /\ \A flaw \in Flaws :
         InputRoot = Damaged(GoodRoot, flaw.path, flaw) =>
           /\ NodeAt(GoodRoot, flaw.path).name = flaw.node
           /\ err # ""
           /\ obj = NoObj
    /\ InputRoot = GoodRoot => (err = "" /\ obj # NoObj)
    /\ err # "" => obj = NoObj

\* a Tone five levels below the root lost its Key: the document is refused
C18_Witness_DeepToneRefused ==
  /\ DecodedDocument
  /\ \E flaw \in Flaws :
       /\ flaw.node = "Tone"
       /\ Len(flaw.path) = 5
       /\ InputRoot = Damaged(GoodRoot, flaw.path, flaw)
  /\ err = "Invalid XML: Not found Tone Key"
  /\ obj = NoObj

CheckedValue == Called("check") /\ obj.cls \in {"Value", "Gate"}

\* C19: a Value or Gate that lacks min, max or both passes check()
\* whatever the values of its entries.
C19_AbsentBoundNoConstraint ==
  (CheckedValue /\ (IsUndef(obj.param.min) \/ IsUndef(obj.param.max))) =>
    err = ""

\* what check() does: every entry is held against each bound that is
\* there, so only a Value without both bounds passes whatever it holds
C19_EachPresentBound ==
  CheckedValue =>
    (err = "" <=>
       \A i \in 1..Len(obj.tags) :
         /\ IsUndef(obj.param.min)
              \/ obj.param.min.n <= obj.tags[i].param.value.n
         /\ IsUndef(obj.param.max)
              \/ obj.tags[i].param.value.n <= obj.param.max.n)

\* e without the children named Unknown
WithoutUnknown(e) ==
  LET Known(c) == ~(c.type = "element" /\ c.name = "Unknown")
  IN [e EXCEPT !.elements = SelectSeq(@, Known)]

\* the decoder of a class on an element
DecoderOf(cls, e) ==
  IF cls = "ModuleData" THEN ModuleData_fromXMLElement(e)
  ELSE Base_fromXMLElement(cls, e)

\* an element that holds a child named Unknown was decoded
DecodedWithUnknown ==
  /\ ops = <<"fromXMLElement">>
  /\ xml.type = "element"
  /\ xml # WithoutUnknown(xml)

\* the classes whose decoder takes every child element for an Entry
EntryHolders == {"Value", "Gate", "Table"}

\* C20: in the decode of every entity that holds children, a child element
\* of a name the entity does not know is skipped: the decode gives what it
\* gives for the element without that child.
C20_UnknownChildSkipped ==
  DecodedWithUnknown =>
    /\ obj = DecoderOf(input.cls, WithoutUnknown(xml)).val
    /\ err = DecoderOf(input.cls, WithoutUnknown(xml)).err

\* what holds: the same for every class but Value, Gate and Table
C20_UnknownChildSkippedButInEntryHolders ==
  (DecodedWithUnknown /\ input.cls \notin EntryHolders) =>
    /\ obj = DecoderOf(input.cls, WithoutUnknown(xml)).val
    /\ err = DecoderOf(input.cls, WithoutUnknown(xml)).err

\* a child of an unknown name in a Value, a Gate or a Table is decoded as
\* an Entry: the decode fails or the result has one entry more
C20_UnknownChildIsEntry ==
  (DecodedWithUnknown /\ input.cls \in EntryHolders) =>
    \/ err = "Invalid XML: Not found Entry Label"
    \/ /\ err = ""
       /\ Len(obj.tags) = Len(DecoderOf(input.cls, WithoutUnknown(xml)).val.tags) + 1

Decoding == Called("fromXMLElement") \/ Called("fromXML")

EncodingRoot == Encoding /\ obj.cls \in {"ModuleData", "File"}

\* C21: a decode logs no line of the consistency check; an encode of a
\* ModuleData or a File that fails in a sub-tree logs none either, and one
\* that succeeds logs the lines of check() on the tree it encoded.
C21_CheckerOnlyAfterEncode ==
  /\ Decoding => log = <<>>
  /\ (EncodingRoot /\ err # "") => log = <<>>
  /\ (EncodingRoot /\ err = "") => log = ModuleData_check(Root)

\* a tree with macros and an invalid Tone: the encode fails and nothing of
\* what check() would say about the macros is logged
C21_Witness_FailedEncodeSilent ==
  /\ EncodingRoot
  /\ ~AllValid(Root)
  /\ ModuleData_check(Root) # <<>>
  /\ err # ""
  /\ log = <<>>

\* the places of the log where the used ids of a kind are reported
InfoLinesOf(kind) ==
  {i \in 1..Len(log) :
     log[i].level = "info" /\ log[i].type = TypeName([cls |-> kind])}

CheckedRoot == Called("check") /\ obj.cls = "ModuleData"

\* C22: a run of check() logs one info line for each of the kinds Folder,
\* CCM and Table, whatever the tree: also for a kind without nodes and
\* for folders none of which has an id.
C22_OneInfoLinePerKind ==
  CheckedRoot => \A kind \in Kinds : Cardinality(InfoLinesOf(kind)) = 1

\* C22, amended: a run of check() logs one info line, with the ranges of
\* the ids, for each kind of which some node has an id, and none for a
\* kind without nodes or without ids.
C22_OneInfoLinePerUsedKind ==
  CheckedRoot =>
    \A kind \in Kinds :
      /\ Cardinality(InfoLinesOf(kind))
           = (IF IdsOf(obj, kind) # {} THEN 1 ELSE 0)
      /\ \A i \in InfoLinesOf(kind) :
           log[i].text = RangeText(IdsOf(obj, kind), <<" ">>, <<" ">>)

\* folders without id around macros with ids, and no table: one line, for
\* the macros
C22_Witness_IdlessFolderNoLine ==
  /\ CheckedRoot
  /\ Len(MacroNodesOf(obj, "CCMFolder")) > 0
  /\ IdsOf(obj, "CCMFolder") = {}
  /\ IdsOf(obj, "CCM") # {}
  /\ InfoLinesOf("CCMFolder") = {}
  /\ Cardinality(InfoLinesOf("CCM")) = 1

\* the tags of the macro list of a ModuleData
MacroListOf(t) ==
  IF HasKey(t.tags, "controlChangeMacroList")
  THEN GetKey(t.tags, "controlChangeMacroList").tags
  ELSE <<>>

\* the nodes of one kind among tags and inside the folders among them, at
\* any depth, in the order of the document
RECURSIVE NodesOfKind(_, _)
NodesOfKind(tags, kind) ==
  IF tags = <<>> THEN <<>>
  ELSE (IF Head(tags).cls = kind THEN <<Head(tags)>> ELSE <<>>)
         \o (IF Head(tags).cls = "CCMFolder"
             THEN NodesOfKind(Head(tags).tags, kind) ELSE <<>>)
         \o NodesOfKind(Tail(tags), kind)

\* the lines of the log that name a kind
LinesOf(kind) ==
  LET Names(line) == line.type = TypeName([cls |-> kind])
  IN SelectSeq(log, Names)

\* what the check says of a list of nodes of one kind
Accounted(list) == checkDuplicate(Sort(list)) \o outputUsedId(Sort(list))

\* C23: what check() logs for a kind is what it says of the nodes of that
\* kind found in the macro list at any depth, and of nothing else: links
\* and memos and the nodes of the other kinds add no line, so that a
\* macro, a folder and a table with one id give no duplicate error.
C23_FlattenAndPartition ==
  CheckedRoot =>
    /\ \A kind \in Kinds :
         LinesOf(kind) = Accounted(NodesOfKind(MacroListOf(obj), kind))
    /\ \A i \in 1..Len(log) : log[i].type \in {"Folder", "CCM", "Table"}
    /\ MacroListOf(obj) = SharedIdMacros => ~HasErrorLine

\* the macro that is repeated two folders down is found
C23_Witness_DeepDuplicateFound ==
  /\ CheckedRoot
  /\ MacroListOf(obj) = DeepMacros
  /\ LinesOf("CCM") = <<ErrorLine("CCM", Num(1)), InfoLine("CCM", <<"1", " ">>)>>
  /\ Len(LinesOf("CCMFolder")) = 1

HasId(tag) == ~IsUndef(tag.param.id)
HasNoId(tag) == IsUndef(tag.param.id)

\* the nodes of list with the id x, in the order of list
WithId(list, x) ==
  LET Is(tag) == tag.param.id = x
  IN SelectSeq(list, Is)

\* sorted holds the nodes of list: those with an id first, ascending, the
\* nodes of one id in the order of list, then those without id in the
\* order of list
SortedByIdStable(list, sorted) ==
  LET n == Len(SelectSeq(list, HasId))
  IN /\ Len(sorted) = Len(list)
     /\ \A i \in 1..n : HasId(sorted[i])
     /\ \A i, j \in 1..n : i < j => sorted[i].param.id.n <= sorted[j].param.id.n
     /\ \A i \in 1..n : WithId(sorted, sorted[i].param.id)
                          = WithId(list, sorted[i].param.id)
     /\ SubSeq(sorted, n + 1, Len(sorted)) = SelectSeq(list, HasNoId)

\* C24: the list of each kind is sorted ascending by id, the nodes without
\* id after all others in their order of insertion; a node without id
\* draws no duplicate error and is not in the used-id report.
C24_SortAndIdless ==
  CheckedRoot =>
    \A kind \in Kinds :
      /\ SortedByIdStable(NodesOfKind(MacroListOf(obj), kind),
                          Sort(NodesOfKind(MacroListOf(obj), kind)))
      /\ \A i \in 1..Len(log) : log[i].level = "error" => ~IsUndef(log[i].id)
      /\ IdsOf(obj, kind) = {} => LinesOf(kind) = <<>>
      /\ \A i \in InfoLinesOf(kind) :
           log[i].text = RangeText(IdsOf(obj, kind), <<" ">>, <<" ">>)

\* two folders without id around a folder with id 1: the sort puts the
\* folder with id first and the log holds the report of id 1 alone
C24_Witness_TwoIdlessFolders ==
  /\ CheckedRoot
  /\ Len(NodesOfKind(MacroListOf(obj), "CCMFolder")) = 3
  /\ LET list == NodesOfKind(MacroListOf(obj), "CCMFolder")
     IN /\ HasNoId(list[1]) /\ HasId(list[2]) /\ HasNoId(list[3])
        /\ list[1] # list[3]
        /\ Sort(list) = <<list[2], list[1], list[3]>>
  /\ LinesOf("CCMFolder") = <<InfoLine("Folder", <<"1", " ">>)>>

EncodedPC ==
  /\ Called("toXMLElement")
  /\ obj.cls \in {"InstrumentPC", "DrumPC"}
  /\ err = ""

\* C25: toXMLElement() of an InstrumentPC or a DrumPC that returns gave an
\* element PC with at least one child Bank; with an empty list of banks it
\* throws.
C25_EncodedPCHasBank ==
  /\ EncodedPC => ChildElements(xml, {"Bank"}) # <<>>
  /\ (Called("toXMLElement") /\ obj.cls \in {"InstrumentPC", "DrumPC"}
        /\ obj.banks = <<>>) => err # ""

\* what holds instead: the element has one child Bank for each bank of the
\* list, none for the empty list
C25_OneBankPerListedBank ==
  EncodedPC =>
    /\ xml.name = "PC"
    /\ Len(xml.elements) = Len(obj.banks)
    /\ ChildElements(xml, {"Bank"}) = xml.elements

\* the kinds and ids that the duplicate errors of the log name
Reported(kind, id) ==
  \E i \in 1..Len(log) : log[i] = ErrorLine(TypeName([cls |-> kind]), id)

\* C26: check() logs a duplicate error for a kind and an id only if two or
\* more nodes of the kind carry the id, for every id, 0 and the negative
\* ids of folders among them.
C26_NoFalseDuplicate ==
  CheckedRoot =>
    \A kind \in Kinds, id \in MacroIds :
      Reported(kind, id) => Occurrences(obj, kind, id) >= 2

\* what holds instead: no false duplicate for an id other than -1, and a
\* single node with the id -1 is reported
C26_NoFalseDuplicateButMinusOne ==
  CheckedRoot =>
    /\ \A kind \in Kinds, id \in MacroIds \ {Num(-1)} :
         Reported(kind, id) => Occurrences(obj, kind, id) >= 2
    /\ \A kind \in Kinds :
         Occurrences(obj, kind, Num(-1)) >= 1 => Reported(kind, Num(-1))

\* the outer iterations of outputUsedId on list from index i on (0-based):
\* for each the index it starts at, the last index it absorbed, the id it
\* ended the range with and the index the next iteration starts at; an
\* iteration that does not advance ends the trace
RECURSIVE usedIdIterations(_, _)
usedIdIterations(list, i) ==
  IF ~(i < Len(list)) THEN <<>>
  ELSE IF IsUndef(list[i + 1].param.id) THEN <<>>
  ELSE LET r == usedIdInner(list, i + 1, Undef)
           it == [start |-> i,
                  last |-> IF r.i < Len(list) THEN r.i ELSE Len(list) - 1,
                  end |-> IF IsUndef(r.end) THEN list[i + 1].param.id
                          ELSE r.end,
                  next |-> r.i + 1]
       IN IF it.next > i THEN <<it>> \o usedIdIterations(list, it.next)
          ELSE <<it>>

\* the iterations advance and split the positions with an id into
\* successive ranges: its is the trace of the loop on list
Advancing(list, its) ==
  LET n == Len(SelectSeq(list, HasId))
  IN /\ \A k \in 1..Len(its) :
          /\ its[k].next > its[k].start
          /\ its[k].start <= its[k].last
          /\ its[k].end = list[its[k].last + 1].param.id
     /\ \A k \in 1..(Len(its) - 1) : its[k + 1].start = its[k].last + 1
     /\ n > 0 => (its # <<>> /\ its[1].start = 0 /\ its[Len(its)].last = n - 1)
     /\ n = 0 => its = <<>>

\* the number of ranges that a used-id text names
Pieces(text) == Cardinality({i \in 1..Len(text) : text[i] = " "})

\* C27: on the sorted list of each kind the loop of outputUsedId ends; each
\* outer iteration starts past the one before, at the position after the
\* last one that was absorbed, so that no position is the start of two
\* ranges or in two ranges, and the line names one range per iteration.
C27_RangeLoopAdvances ==
  CheckedRoot =>
    \A kind \in Kinds :
      LET its == usedIdIterations(Sort(NodesOfKind(MacroListOf(obj), kind)), 0)
      IN /\ Advancing(Sort(NodesOfKind(MacroListOf(obj), kind)), its)
         /\ Len(its) <= Len(NodesOfKind(MacroListOf(obj), kind))
         /\ \A i \in InfoLinesOf(kind) : Pieces(log[i].text) = Len(its)

\* the macros 1, 1, 3, 4, 5, 9: three iterations, over the positions 0-1,
\* 2-4 and 5; a folder with id before one without: one iteration
C27_Witness_DuplicateGapSingle ==
  /\ CheckedRoot
  /\ MacroListOf(obj) = SixMacros
  /\ usedIdIterations(Sort(NodesOfKind(SixMacros, "CCM")), 0)
       = <<[start |-> 0, last |-> 1, end |-> Num(1), next |-> 2],
           [start |-> 2, last |-> 4, end |-> Num(5), next |-> 5],
           [start |-> 5, last |-> 5, end |-> Num(9), next |-> 7]>>
  /\ usedIdIterations(<<CCMFolder(NameA, Num(1), <<>>),
                        CCMFolder(NameA, Undef, <<>>)>>, 0)
       = <<[start |-> 0, last |-> 0, end |-> Num(1), next |-> 1]>>

\* no decoder was called: obj is the tree that the caller built
OnlyCheckedOrEncoded ==
  /\ ops # <<>>
  /\ \A i \in 1..Len(ops) : ops[i] \in {"check", "toXMLElement", "toXML"}

\* C28: after any calls of check(), toXMLElement() and toXML() the tree is
\* the one the caller built: every list holds the same members in the same
\* order and every parameter its value, while the lists that check()
\* sorted are its own.
C28_CheckAndEncodeReadOnly ==
  OnlyCheckedOrEncoded =>
    /\ obj = input.obj
    /\ obj.cls = "ModuleData" =>
         /\ ModuleData_checkArrays(obj).tags = MacroListOf(input.obj)
         /\ \A kind \in Kinds :
              NodesOfKind(MacroListOf(obj), kind)
                = NodesOfKind(MacroListOf(input.obj), kind)

\* the macros 9, 1, 4, 1, 5, 3 after check() and toXMLElement(): the list
\* that check() sorted reads 1, 1, 3, 4, 5, 9 and that of the tree is as it
\* was
C28_Witness_SortedCopyUnsortedTree ==
  /\ ops = <<"check", "toXMLElement">>
  /\ err = ""
  /\ obj.cls = "ModuleData"
  /\ MacroListOf(obj) = SixMacros
  /\ ModuleData_checkArrays(obj).ccm # SixMacros
  /\ ModuleData_checkArrays(obj).ccm = Sort(SixMacros)

\* the place of a kind in the order CCM, Folder, Table
KindRank(type) ==
  CASE type = "CCM" -> 1 [] type = "Folder" -> 2 [] type = "Table" -> 3

\* C29: in the log of one check() no error line follows an info line; the
\* lines of one level are in the order CCM, Folder, Table of their kinds;
\* the error lines of one kind are in ascending order of their ids.
C29_DiagnosticOrder ==
  CheckedRoot =>
    \A i, j \in 1..Len(log) :
      i < j =>
        /\ log[i].level = "info" => log[j].level = "info"
        /\ log[i].level = log[j].level =>
             KindRank(log[i].type) <= KindRank(log[j].type)
        /\ (log[i].level = "error" /\ log[j].level = "error"
              /\ log[i].type = log[j].type) => log[i].id.n <= log[j].id.n

\* duplicates of two ids among the macros and of one table: four errors,
\* the macros' by id, then the table's, then the three reports
C29_Witness_ErrorsThenReports ==
  /\ CheckedRoot
  /\ MacroListOf(obj) = MixedDuplicates
  /\ log = <<ErrorLine("CCM", Num(1)), ErrorLine("CCM", Num(3)),
             ErrorLine("Table", Num(0)),
             InfoLine("CCM", <<"1", " ", "3", " ">>),
             InfoLine("Folder", <<"4", " ">>),
             InfoLine("Table", <<"0", " ">>)>>

\* an entity other than the root was encoded: xml is its element
EncodedEntity ==
  /\ Called("toXMLElement")
  /\ obj.cls # "ModuleData"
  /\ err = ""

\* C30: what an encoder returned for a tree whose entities all pass
\* check() is decoded without error once the parser has coerced its
\* attributes: the element of an entity by the decoder of its class, the
\* document of a File by fromXML.
C30_DecodeAcceptsEncoded ==
  /\ EncodedEntity => Base_fromXMLElement(obj.cls, xml2js(xml)).ok
  /\ (ops = <<"toXML", "fromXML">> /\ AllValid(input.obj)) => err = ""

\* the classes with a required attribute that must be a string
StringTyped == {"ExclusiveEventDefault", "TimeSignature", "KeySignature"}

\* the parser hands every attribute of e back with the type it was written
\* with
KeepsTypes(e) ==
  /\ Len(xml2js(e).attributes) = Len(WrittenAttributes(e.attributes))
  /\ \A i \in 1..Len(xml2js(e).attributes) :
       \E j \in 1..Len(e.attributes) :
         /\ e.attributes[j].name = xml2js(e).attributes[i].name
         /\ e.attributes[j].value.k = xml2js(e).attributes[i].value.k

NoBanks(t) == t.cls \in {"InstrumentPC", "DrumPC"} /\ t.banks = <<>>

\* what holds instead: the element of a class of StringTyped is decoded
\* exactly when its text does not read as a number or a boolean, and the
\* element of any other class when no PC below it is without banks
C30_DecodeAcceptsEncodedButNumericText ==
  EncodedEntity =>
    /\ obj.cls \in StringTyped =>
         (Base_fromXMLElement(obj.cls, xml2js(xml)).ok <=> KeepsTypes(xml))
    /\ (obj.cls \notin StringTyped /\ \A d \in Entities(obj) : ~NoBanks(d)) =>
         Base_fromXMLElement(obj.cls, xml2js(xml)).ok

====
